---- MODULE Spec2Model ----
(***************************************************************************)
(* Field validation of the client registry (clientes/forms.py) and the     *)
(* client store it is checked against (clientes/models.py, views.py).      *)
(*                                                                         *)
(* A Python str is modelled as a sequence of one-character strings.  Two   *)
(* families of Unicode decimal digits (category Nd) are represented: the   *)
(* ASCII digits "0".."9" and the Arabic-Indic digits U+0660..U+0669,       *)
(* written "U+0660".."U+0669".  Both are matched by the regex class \d of  *)
(* a str pattern and both are converted by int().                          *)
(***************************************************************************)
EXTENDS Integers, Sequences, FiniteSets, TLC

VARIABLES
    campo,        \* the form field whose clean_<campo> method runs
    valor,        \* cleaned_data[campo]: the submitted value of the field
    instance_pk,  \* self.instance.pk (0: a new, unsaved instance)
    clientes,     \* the rows of Cliente: records [pk, cpf_cnpj, tipo, ativo]
    pc,           \* position of the submission
    resultado,    \* outcome of the last run of the handler
    anterior,     \* outcome of the run before the last one
    formulario,   \* the form class whose method runs
    cleaned_data, \* self.cleaned_data of a form whose method reads several fields
    agora,        \* timezone.now() at the time the method runs
    pedidos,      \* the requests in flight: their position and their form's data
    prazos,       \* the rows of Prazo
    configuracoes,\* the rows of Configuracao
    instancia,    \* a model instance in memory (self)
    linha,        \* the row the database holds for the instance
    gravacoes     \* the calls of save() on the instance

\* the records a run of a form's cleaning method does not touch
registros == <<pedidos, prazos, configuracoes, instancia, linha, gravacoes>>

vars == <<campo, valor, instance_pk, clientes, pc, resultado, anterior,
          formulario, cleaned_data, agora, registros>>

----------------------------------------------------------------------------
(* Bounds of the explored inputs *)

\* substitutions applied to a seed digit string (specifications of digits)
MaxEdicoesDigitos == 2
\* substitutions applied to a seed raw string (specifications of fields)
MaxEdicoes == 2
\* rows of Cliente
MaxClientes == 3

----------------------------------------------------------------------------
(* Characters *)

AsciiDigits == <<"0", "1", "2", "3", "4", "5", "6", "7", "8", "9">>

ArabicIndicDigits ==
    <<"U+0660", "U+0661", "U+0662", "U+0663", "U+0664",
      "U+0665", "U+0666", "U+0667", "U+0668", "U+0669">>

\* The decimal value of each character of category Nd: what int() returns.
DecimalValue ==
    [c \in {AsciiDigits[i] : i \in 1..10} \cup {ArabicIndicDigits[i] : i \in 1..10} |->
        IF \E i \in 1..10 : AsciiDigits[i] = c
        THEN (CHOOSE i \in 1..10 : AsciiDigits[i] = c) - 1
        ELSE (CHOOSE i \in 1..10 : ArabicIndicDigits[i] = c) - 1]

\* \d of a str pattern: any Unicode decimal digit.
IsDecimal(c) == c \in DOMAIN DecimalValue

IsAsciiDigit(c) == \E i \in 1..10 : AsciiDigits[i] = c

\* A stripping step that removes the punctuation only.
re_sub_pontuacao(s) == SelectSeq(s, LAMBDA c : c \notin {".", "-", "/", " ", "(", ")"})

\* re.sub(r'\D', '', s): s without the characters that are not decimal digits.
re_sub_D(s) == SelectSeq(s, IsDecimal)

\* c * n for a one-character string c.
Repeat(c, n) == [i \in 1..n |-> c]

----------------------------------------------------------------------------
(* Outcomes of a clean_<campo> method *)

Nenhum == [tipo |-> "Nenhum", valor |-> <<>>, mensagem |-> ""]

\* cleaned_data of a form of which a single field is followed
SemDados == <<>>

\* no request in flight, no row and no instance
SemRegistros ==
    /\ pedidos = <<>>
    /\ prazos = {}
    /\ configuracoes = {}
    /\ instancia = SemDados
    /\ linha = SemDados
    /\ gravacoes = 0

\* the method returned v
Accepted(v) == [tipo |-> "Accepted", valor |-> v, mensagem |-> ""]

\* the method raised ValidationError(m)
ValidationError(m) == [tipo |-> "ValidationError", valor |-> <<>>, mensagem |-> m]

\* the method let another exception escape
Raised(e) == [tipo |-> "Exception", valor |-> <<>>, mensagem |-> e]

MsgCpfInvalido == "CPF invalido."
MsgCnpjInvalido == "CNPJ invalido."
MsgTamanho == "CPF deve ter 11 digitos ou CNPJ deve ter 14 digitos."
MsgDuplicado == "Ja existe um cliente cadastrado com este CPF/CNPJ."
MsgTelefoneCurto == "Telefone deve ter pelo menos 10 digitos."
MsgTelefoneTamanho == "Telefone deve ter 10 ou 11 digitos."
MsgCepTamanho == "CEP deve ter 8 digitos."

----------------------------------------------------------------------------
(* Check digits *)

\* The exception, if any, of evaluating int(s[i]) for i in range(n), in order.
IntError(s, n) ==
    LET bad == {i \in 1..n : i > Len(s) \/ ~IsDecimal(s[i])}
        first == CHOOSE i \in bad : \A j \in bad : i <= j
    IN  IF bad = {} THEN "none"
        ELSE IF first > Len(s) THEN "IndexError" ELSE "ValueError"

\* sum(int(s[i]) * pesos[i] for i in range(len(pesos)))
RECURSIVE soma(_, _, _)
soma(s, pesos, n) ==
    IF n = 0 THEN 0 ELSE soma(s, pesos, n - 1) + DecimalValue[s[n]] * pesos[n]

\* 0 if resto < 2 else 11 - resto
digito(total) == LET resto == total % 11 IN IF resto < 2 THEN 0 ELSE 11 - resto

\* (10 - i) for i in range(9)
pesos_cpf1 == [i \in 1..9 |-> 10 - (i - 1)]

\* (11 - i) for i in range(10)
pesos_cpf2 == [i \in 1..10 |-> 11 - (i - 1)]

\* The first weights taken from the head of the second list.
pesos1_de_pesos2 == <<6, 5, 4, 3, 2, 9, 8, 7, 6, 5, 4, 3>>

pesos1 == <<5, 4, 3, 2, 9, 8, 7, 6, 5, 4, 3, 2>>

pesos2 == <<6, 5, 4, 3, 2, 9, 8, 7, 6, 5, 4, 3, 2>>

\* A CPF check that stops after the first check digit.
_validar_cpf_um_digito(cpf) ==
    IF Len(cpf) # 11 \/ cpf = Repeat(cpf[1], 11) THEN "False"
    ELSE IF IntError(cpf, 10) # "none" THEN IntError(cpf, 10)
    ELSE IF DecimalValue[cpf[10]] # digito(soma(cpf, pesos_cpf1, 9)) THEN "False"
    ELSE "True"

_validar_cpf(cpf) ==
    IF Len(cpf) # 11 \/ cpf = Repeat(cpf[1], 11) THEN "False"
    ELSE IF IntError(cpf, 10) # "none" THEN IntError(cpf, 10)
    ELSE LET digito1 == digito(soma(cpf, pesos_cpf1, 9))
         IN  IF DecimalValue[cpf[10]] # digito1 THEN "False"
             ELSE IF IntError(cpf, 11) # "none" THEN IntError(cpf, 11)
             ELSE LET digito2 == digito(soma(cpf, pesos_cpf2, 10))
                  IN  IF DecimalValue[cpf[11]] = digito2 THEN "True" ELSE "False"

_validar_cnpj(cnpj) ==
    IF Len(cnpj) # 14 \/ cnpj = Repeat(cnpj[1], 14) THEN "False"
    ELSE IF IntError(cnpj, 13) # "none" THEN IntError(cnpj, 13)
    ELSE LET digito1 == digito(soma(cnpj, pesos1, 12))
         IN  IF DecimalValue[cnpj[13]] # digito1 THEN "False"
             ELSE IF IntError(cnpj, 14) # "none" THEN IntError(cnpj, 14)
             ELSE LET digito2 == digito(soma(cnpj, pesos2, 13))
                  IN  IF DecimalValue[cnpj[14]] = digito2 THEN "True" ELSE "False"

----------------------------------------------------------------------------
(* ClienteForm: the clean_<campo> methods *)

\* Cliente.objects.filter(cpf_cnpj=cpf_cnpj), without the instance when it is saved
existing(cpf_cnpj, pk, rows) ==
    IF pk # 0
    THEN {c \in rows : c.cpf_cnpj = cpf_cnpj /\ c.pk # pk}
    ELSE {c \in rows : c.cpf_cnpj = cpf_cnpj}

\* A return that keeps the number, not the string: leading zeros are lost.
RECURSIVE sem_zeros(_)
sem_zeros(s) == IF s # <<>> /\ DecimalValue[Head(s)] = 0 THEN sem_zeros(Tail(s)) ELSE s

verificar_existente_int(cpf_cnpj, pk, rows) ==
    IF existing(cpf_cnpj, pk, rows) # {} THEN ValidationError(MsgDuplicado)
    ELSE Accepted(sem_zeros(cpf_cnpj))

\* The end of clean_cpf_cnpj: the lookup of another client and the return.
verificar_existente(cpf_cnpj, pk, rows) ==
    IF existing(cpf_cnpj, pk, rows) # {} THEN ValidationError(MsgDuplicado)
    ELSE Accepted(cpf_cnpj)

\* The outcome of `if not self._validar_xxx(cpf_cnpj): raise ValidationError(msg)`.
exigir(valido, msg, cpf_cnpj, pk, rows) ==
    IF valido \notin {"True", "False"} THEN Raised(valido)
    ELSE IF valido = "False" THEN ValidationError(msg)
    ELSE verificar_existente(cpf_cnpj, pk, rows)

\* A clean_cpf_cnpj that tests `if cpf_cnpj:` after the stripping.
clean_cpf_cnpj_teste_tardio(raw, pk, rows) ==
    LET cpf_cnpj == re_sub_D(raw)
    IN  IF cpf_cnpj = <<>> THEN Accepted(cpf_cnpj)
        ELSE IF Len(cpf_cnpj) = 11
        THEN exigir(_validar_cpf(cpf_cnpj), MsgCpfInvalido, cpf_cnpj, pk, rows)
        ELSE IF Len(cpf_cnpj) = 14
        THEN exigir(_validar_cnpj(cpf_cnpj), MsgCnpjInvalido, cpf_cnpj, pk, rows)
        ELSE ValidationError(MsgTamanho)

clean_cpf_cnpj(raw, pk, rows) ==
    IF raw = <<>> THEN Accepted(raw)
    ELSE LET cpf_cnpj == re_sub_D(raw)
         IN  IF Len(cpf_cnpj) = 11
             THEN exigir(_validar_cpf(cpf_cnpj), MsgCpfInvalido, cpf_cnpj, pk, rows)
             ELSE IF Len(cpf_cnpj) = 14
             THEN exigir(_validar_cnpj(cpf_cnpj), MsgCnpjInvalido, cpf_cnpj, pk, rows)
             ELSE ValidationError(MsgTamanho)

\* A clean_telefone that formats the first 11 digits of a longer number.
clean_telefone_trunca(raw) ==
    IF raw = <<>> THEN Accepted(raw)
    ELSE LET telefone_numerico == re_sub_D(raw)
             n == Len(telefone_numerico)
         IN  IF n < 10 THEN ValidationError(MsgTelefoneCurto)
             ELSE IF n = 10
                  THEN Accepted(<<"(">> \o SubSeq(telefone_numerico, 1, 2) \o <<")", " ">>
                                \o SubSeq(telefone_numerico, 3, 6) \o <<"-">>
                                \o SubSeq(telefone_numerico, 7, n))
             ELSE Accepted(<<"(">> \o SubSeq(telefone_numerico, 1, 2) \o <<")", " ">>
                           \o SubSeq(telefone_numerico, 3, 7) \o <<"-">>
                           \o SubSeq(telefone_numerico, 8, 11))

clean_telefone(raw) ==
    IF raw = <<>> THEN Accepted(raw)
    ELSE LET telefone_numerico == re_sub_D(raw)
             n == Len(telefone_numerico)
         IN  IF n < 10 THEN ValidationError(MsgTelefoneCurto)
             ELSE IF n = 10
                  THEN Accepted(<<"(">> \o SubSeq(telefone_numerico, 1, 2) \o <<")", " ">>
                                \o SubSeq(telefone_numerico, 3, 6) \o <<"-">>
                                \o SubSeq(telefone_numerico, 7, n))
             ELSE IF n = 11
                  THEN Accepted(<<"(">> \o SubSeq(telefone_numerico, 1, 2) \o <<")", " ">>
                                \o SubSeq(telefone_numerico, 3, 7) \o <<"-">>
                                \o SubSeq(telefone_numerico, 8, n))
             ELSE ValidationError(MsgTelefoneTamanho)

\* A clean_cep that returns the eight digits as they are.
clean_cep_sem_hifen(raw) ==
    IF raw = <<>> THEN Accepted(raw)
    ELSE LET cep_numerico == re_sub_D(raw)
         IN  IF Len(cep_numerico) # 8 THEN ValidationError(MsgCepTamanho)
             ELSE Accepted(cep_numerico)

clean_cep(raw) ==
    IF raw = <<>> THEN Accepted(raw)
    ELSE LET cep_numerico == re_sub_D(raw)
         IN  IF Len(cep_numerico) # 8 THEN ValidationError(MsgCepTamanho)
             ELSE Accepted(SubSeq(cep_numerico, 1, 5) \o <<"-">>
                           \o SubSeq(cep_numerico, 6, Len(cep_numerico)))

\* full_clean's call of the clean_<campo> method of the field
clean_campo(c, raw, pk, rows) ==
    IF c = "cpf_cnpj" THEN clean_cpf_cnpj(raw, pk, rows)
    ELSE IF c = "telefone" THEN clean_telefone(raw)
    ELSE clean_cep(raw)

----------------------------------------------------------------------------
(* Submitted values *)

\* The str of a sequence of digit values.
Ascii(ds) == [i \in 1..Len(ds) |-> AsciiDigits[ds[i] + 1]]

ArabicIndic(ds) == [i \in 1..Len(ds) |-> ArabicIndicDigits[ds[i] + 1]]

\* The strictly increasing choices of k of the positions 1..n.
Posicoes(n, k) == {p \in [1..k -> 1..n] : \A a, b \in 1..k : a < b => p[a] < p[b]}

\* s with the character at each position p[j] replaced by ch[j].
Substituir(s, p, ch) ==
    IF s = <<>> THEN s
    ELSE [i \in 1..Len(s) |->
            IF \E j \in DOMAIN p : p[j] = i
            THEN ch[CHOOSE j \in DOMAIN p : p[j] = i]
            ELSE s[i]]

Menor(a, b) == IF a < b THEN a ELSE b

\* v differs from s in at most k places, each replaced from alfabeto.
Variante(v, s, k, alfabeto) ==
    \E p \in Posicoes(Len(s), Menor(k, Len(s))) :
        \E ch \in [1..Menor(k, Len(s)) -> alfabeto] : v = Substituir(s, p, ch)

DigitosAscii == {AsciiDigits[i] : i \in 1..10}

CaracteresEdicao == {"0", "1", "7", ".", "a", "U+0663"}

SementesCpf == {Ascii(<<1, 1, 1, 4, 4, 4, 7, 7, 7, 3, 5>>),
                Ascii(<<5, 2, 9, 9, 8, 2, 2, 4, 7, 2, 5>>)}

\* the second one has both remainders equal to 1 (check digits 0, 0)
SementesCnpj == {Ascii(<<1, 1, 2, 2, 2, 3, 3, 3, 0, 0, 0, 1, 8, 1>>),
                 Ascii(<<8, 6, 2, 3, 3, 1, 9, 2, 0, 0, 0, 1, 0, 0>>)}

CpfPontuado == <<"1", "1", "1", ".", "4", "4", "4", ".", "7", "7", "7", "-", "3", "5">>

CnpjPontuado ==
    <<"1", "1", ".", "2", "2", "2", ".", "3", "3", "3", "/", "0", "0", "0", "1", "-", "8", "1">>

SementesCpfCnpj ==
    SementesCpf \cup SementesCnpj \cup
    {CpfPontuado, CnpjPontuado,
     Ascii(<<0, 0, 0, 0, 0, 0, 0, 0, 1, 9, 1>>),
     Repeat("0", 11), Repeat("1", 11), Repeat("0", 14),
     <<"0", "0", "0", ".", "0", "0", "0", ".", "0", "0", "0", "-", "0", "0">>,
     ArabicIndic(<<1, 1, 1, 4, 4, 4, 7, 7, 7, 3, 5>>),
     <<"a", "b", "c">>,
     Ascii(<<1, 1, 1, 4, 4, 4, 7, 7, 7, 3>>),
     Ascii(<<1, 1, 1, 4, 4, 4, 7, 7, 7, 3, 5, 1>>),
     Ascii(<<1, 1, 2, 2, 2, 3, 3, 3, 0, 0, 0, 1, 8, 1, 0, 0, 0, 1>>)}

SementesTelefone ==
    {Ascii(<<1, 1, 9, 8, 7, 6, 5, 4, 3, 2, 1>>),
     Ascii(<<1, 1, 9, 8, 7, 6, 5, 4, 3, 2>>),
     <<"(", "1", "1", ")", " ", "9", "8", "7", "6", "5", "-", "4", "3", "2", "1">>,
     <<"(", "1", "1", ")", " ", "9", "8", "7", "6", "-", "5", "4", "3", "2">>,
     Ascii(<<1, 2, 3>>),
     Ascii(<<1, 1, 9, 8, 7, 6, 5, 4, 3, 2, 1, 0>>),
     Ascii(<<5, 5, 1, 1, 9, 8, 7, 6, 5, 4, 3, 2, 1, 0, 0, 0, 0, 0, 0, 0>>),
     ArabicIndic(<<1, 1, 9, 8, 7, 6, 5, 4, 3, 2, 1>>),
     <<"a">>,
     <<>>}

SementesCep ==
    {Ascii(<<0, 1, 3, 1, 0, 1, 0, 0>>),
     <<"0", "1", "3", "1", "0", "-", "1", "0", "0">>,
     Ascii(<<1, 2, 3>>),
     Ascii(<<0, 1, 3, 1, 0, 1, 0, 0, 0>>),
     Ascii(<<0, 1, 3, 1, 0, 1, 0>>),
     <<"a">>,
     <<>>}

\* The seeds of the values of a field.  cpf_cnpj is required: an empty value is
\* refused before clean_cpf_cnpj runs; telefone and cep may be empty.
Sementes(c) ==
    IF c = "cpf_cnpj" THEN SementesCpfCnpj
    ELSE IF c = "telefone" THEN SementesTelefone
    ELSE SementesCep

\* Stored clients: cpf_cnpj in the format the model's validator requires, unique.
ClientesIniciais ==
    {[pk |-> 1, cpf_cnpj |-> CpfPontuado, tipo |-> "PF", ativo |-> TRUE],
     [pk |-> 2, cpf_cnpj |-> CnpjPontuado, tipo |-> "PJ", ativo |-> FALSE]}

----------------------------------------------------------------------------
(* A submission of one field of ClienteForm *)

InitCampos ==
    /\ campo \in {"cpf_cnpj", "telefone", "cep"}
    /\ \E s \in Sementes(campo) : Variante(valor, s, MaxEdicoes, CaracteresEdicao)
    /\ instance_pk \in IF campo = "cpf_cnpj" THEN {0, 1} ELSE {0}
    /\ clientes = ClientesIniciais
    /\ pc = "entrada"
    /\ resultado = Nenhum
    /\ anterior = Nenhum
    /\ SemRegistros
    /\ formulario = "ClienteForm"
    /\ cleaned_data = SemDados
    /\ agora = 0

ClienteForm_clean_cpf_cnpj ==
    /\ pc = "entrada"
    /\ formulario = "ClienteForm"
    /\ campo = "cpf_cnpj"
    /\ resultado' = clean_cpf_cnpj(valor, instance_pk, clientes)
    /\ pc' = "validado"
    /\ UNCHANGED <<campo, valor, instance_pk, clientes, anterior, formulario, cleaned_data, agora, registros>>

ClienteForm_clean_telefone ==
    /\ pc = "entrada"
    /\ formulario = "ClienteForm"
    /\ campo = "telefone"
    /\ resultado' = clean_telefone(valor)
    /\ pc' = "validado"
    /\ UNCHANGED <<campo, valor, instance_pk, clientes, anterior, formulario, cleaned_data, agora, registros>>

ClienteForm_clean_cep ==
    /\ pc = "entrada"
    /\ formulario = "ClienteForm"
    /\ campo = "cep"
    /\ resultado' = clean_cep(valor)
    /\ pc' = "validado"
    /\ UNCHANGED <<campo, valor, instance_pk, clientes, anterior, formulario, cleaned_data, agora, registros>>

\* The value the method returned is submitted again, against the same rows.
Revalidar ==
    /\ pc = "validado"
    /\ resultado.tipo = "Accepted"
    /\ valor' = resultado.valor
    /\ anterior' = resultado
    /\ resultado' = clean_campo(campo, resultado.valor, instance_pk, clientes)
    /\ pc' = "revalidado"
    /\ UNCHANGED <<campo, instance_pk, clientes, formulario, cleaned_data, agora, registros>>

Next ==
    \/ ClienteForm_clean_cpf_cnpj
    \/ ClienteForm_clean_telefone
    \/ ClienteForm_clean_cep
    \/ Revalidar

Spec == InitCampos /\ [][Next]_vars

(* A submission of an 11-digit value *)

InitCpf ==
    /\ campo = "cpf_cnpj"
    /\ \E s \in SementesCpf : Variante(valor, s, MaxEdicoesDigitos, DigitosAscii)
    /\ instance_pk = 0
    /\ clientes = ClientesIniciais
    /\ pc = "entrada"
    /\ resultado = Nenhum
    /\ anterior = Nenhum
    /\ SemRegistros
    /\ formulario = "ClienteForm"
    /\ cleaned_data = SemDados
    /\ agora = 0

NextCpf == ClienteForm_clean_cpf_cnpj

SpecCpf == InitCpf /\ [][NextCpf]_vars

(* A submission of a 14-digit value *)

InitCnpj ==
    /\ campo = "cpf_cnpj"
    /\ \E s \in SementesCnpj : Variante(valor, s, MaxEdicoesDigitos, DigitosAscii)
    /\ instance_pk = 0
    /\ clientes = ClientesIniciais
    /\ pc = "entrada"
    /\ resultado = Nenhum
    /\ anterior = Nenhum
    /\ SemRegistros
    /\ formulario = "ClienteForm"
    /\ cleaned_data = SemDados
    /\ agora = 0

NextCnpj == ClienteForm_clean_cpf_cnpj

SpecCnpj == InitCnpj /\ [][NextCnpj]_vars

----------------------------------------------------------------------------
(* The client store: Cliente rows and the views that write them *)

MsgFormato == "CPF deve estar no formato XXX.XXX.XXX-XX ou CNPJ no formato XX.XXX.XXX/XXXX-XX"
MsgCpf11 == "CPF deve ter 11 digitos"
MsgCnpj14 == "CNPJ deve ter 14 digitos"
MsgUnico == "Cliente with this CPF/CNPJ already exists."

FormatoCpf == <<"d", "d", "d", ".", "d", "d", "d", ".", "d", "d", "d", "-", "d", "d">>

FormatoCnpj ==
    <<"d", "d", ".", "d", "d", "d", ".", "d", "d", "d", "/", "d", "d", "d", "d", "-", "d", "d">>

\* v matches a pattern of \d and literal characters, anchored at both ends.
Casa(v, formato) ==
    /\ Len(v) = Len(formato)
    /\ \A i \in 1..Len(v) : IF formato[i] = "d" THEN IsDecimal(v[i]) ELSE v[i] = formato[i]

\* The RegexValidator of Cliente.cpf_cnpj.
cpf_cnpj_validator(v) == Casa(v, FormatoCpf) \/ Casa(v, FormatoCnpj)

FormatoCep == <<"d", "d", "d", "d", "d", "-", "d", "d", "d">>

\* The RegexValidator of Cliente.cep.
cep_validator(v) == Casa(v, FormatoCep)

\* s.replace(c, '')
replace(s, c) == SelectSeq(s, LAMBDA x : x # c)

\* Cliente.clean: the message of the ValidationError it raises, "" when it raises none.
Cliente_clean(tipo, cpf_cnpj) ==
    IF tipo = "PF" /\ Len(replace(replace(cpf_cnpj, "."), "-")) # 11 THEN MsgCpf11
    ELSE IF tipo = "PJ" /\ Len(replace(replace(replace(cpf_cnpj, "."), "/"), "-")) # 14
    THEN MsgCnpj14
    ELSE ""

\* unique=True of Cliente.cpf_cnpj, as validate_unique checks it.
validate_unique(cpf_cnpj, pk, rows) == \A c \in rows : c.pk # pk => c.cpf_cnpj # cpf_cnpj

\* form.is_valid() as far as cpf_cnpj goes: the field's clean method, then the
\* instance's full_clean (field validators, Cliente.clean) and validate_unique.
is_valid(raw, tipo, pk, rows) ==
    LET r == clean_cpf_cnpj(raw, pk, rows)
    IN  IF r.tipo # "Accepted" THEN r
        ELSE IF ~cpf_cnpj_validator(r.valor) THEN ValidationError(MsgFormato)
        ELSE IF Cliente_clean(tipo, r.valor) # "" THEN ValidationError(Cliente_clean(tipo, r.valor))
        ELSE IF ~validate_unique(r.valor, pk, rows) THEN ValidationError(MsgUnico)
        ELSE r

Pks(rows) == {c.pk : c \in rows}

CpfPontuado2 == <<"5", "2", "9", ".", "9", "8", "2", ".", "2", "4", "7", "-", "2", "5">>

\* Stores whose rows satisfy the model: distinct pk, distinct cpf_cnpj, valid format.
LinhasPossiveis ==
    {[pk |-> k, cpf_cnpj |-> v, tipo |-> IF Len(v) = 14 THEN "PF" ELSE "PJ", ativo |-> TRUE] :
        k \in 1..MaxClientes, v \in {CpfPontuado, CpfPontuado2, CnpjPontuado}}

ArmazensIniciais ==
    {rows \in SUBSET LinhasPossiveis :
        \A c1, c2 \in rows : c1 # c2 => c1.pk # c2.pk /\ c1.cpf_cnpj # c2.cpf_cnpj}

\* What a user submits in the cpf_cnpj field.
Submissoes ==
    {CpfPontuado, CpfPontuado2, CnpjPontuado,
     Ascii(<<1, 1, 1, 4, 4, 4, 7, 7, 7, 3, 5>>),
     Ascii(<<1, 1, 1, 4, 4, 4, 7, 7, 7, 3, 6>>)}

InitClientes ==
    /\ campo = "cpf_cnpj"
    /\ valor = <<>>
    /\ instance_pk = 0
    /\ clientes \in ArmazensIniciais
    /\ pc = "pronto"
    /\ resultado = Nenhum
    /\ anterior = Nenhum
    /\ SemRegistros
    /\ formulario = "ClienteForm"
    /\ cleaned_data = SemDados
    /\ agora = 0

\* ClienteCreateView.post: a valid form is saved as a new row.
ClienteCreateView_post(raw, tipo) ==
    LET r == is_valid(raw, tipo, 0, clientes)
        novo == IF clientes = {} THEN 1
                ELSE 1 + CHOOSE k \in Pks(clientes) : \A j \in Pks(clientes) : j <= k
    IN  /\ Cardinality(clientes) < MaxClientes
        /\ valor' = raw
        /\ resultado' = r
        /\ pc' = "submetido"
        /\ IF r.tipo = "Accepted"
           THEN /\ clientes' = clientes \cup
                        {[pk |-> novo, cpf_cnpj |-> r.valor, tipo |-> tipo, ativo |-> TRUE]}
                /\ instance_pk' = novo
           ELSE /\ clientes' = clientes
                /\ instance_pk' = 0
        /\ UNCHANGED <<campo, anterior, formulario, cleaned_data, agora, registros>>

\* ClienteUpdateView.post: a valid form is saved over the row pk.
ClienteUpdateView_post(pk, raw, tipo) ==
    LET r == is_valid(raw, tipo, pk, clientes)
    IN  /\ pk \in Pks(clientes)
        /\ valor' = raw
        /\ resultado' = r
        /\ pc' = "submetido"
        /\ instance_pk' = pk
        /\ clientes' = IF r.tipo = "Accepted"
                       THEN {IF c.pk = pk THEN [c EXCEPT !.cpf_cnpj = r.valor, !.tipo = tipo]
                             ELSE c : c \in clientes}
                       ELSE clientes
        /\ UNCHANGED <<campo, anterior, formulario, cleaned_data, agora, registros>>

\* ClienteDeleteView.delete: the row is deactivated, not removed.
ClienteDeleteView_delete(pk) ==
    /\ pk \in Pks(clientes)
    /\ clientes' = {IF c.pk = pk THEN [c EXCEPT !.ativo = FALSE] ELSE c : c \in clientes}
    /\ UNCHANGED <<campo, valor, instance_pk, pc, resultado, anterior, formulario, cleaned_data, agora, registros>>

cliente_toggle_status(pk) ==
    /\ pk \in Pks(clientes)
    /\ clientes' = {IF c.pk = pk THEN [c EXCEPT !.ativo = ~c.ativo] ELSE c : c \in clientes}
    /\ UNCHANGED <<campo, valor, instance_pk, pc, resultado, anterior, formulario, cleaned_data, agora, registros>>

NextClientes ==
    \/ \E raw \in Submissoes, tipo \in {"PF", "PJ"} : ClienteCreateView_post(raw, tipo)
    \/ \E pk \in 1..MaxClientes, raw \in Submissoes, tipo \in {"PF", "PJ"} :
           ClienteUpdateView_post(pk, raw, tipo)
    \/ \E pk \in 1..MaxClientes : ClienteDeleteView_delete(pk)
    \/ \E pk \in 1..MaxClientes : cliente_toggle_status(pk)

SpecClientes == InitClientes /\ [][NextClientes]_vars

----------------------------------------------------------------------------
(* The phone normalizers of core/forms.py *)

\* Characters for which str.isdigit() is true and that \d does not match:
\* SUPERSCRIPT TWO stands for those of Numeric_Type Digit outside category Nd.
OutrosDigitos == {"U+00B2"}

\* str.isdigit of a one-character string
str_isdigit(c) == IsDecimal(c) \/ c \in OutrosDigitos

\* ''.join(filter(str.isdigit, s))
filter_isdigit(s) == SelectSeq(s, str_isdigit)

\* ConfiguracaoForm.clean_telefone
clean_telefone_configuracao(raw) ==
    IF raw = <<>> THEN Accepted(raw)
    ELSE LET telefone_limpo == filter_isdigit(raw)
             n == Len(telefone_limpo)
         IN  IF n < 10 THEN ValidationError(MsgTelefoneCurto)
             ELSE IF n = 10
                  THEN Accepted(<<"(">> \o SubSeq(telefone_limpo, 1, 2) \o <<")", " ">>
                                \o SubSeq(telefone_limpo, 3, 6) \o <<"-">>
                                \o SubSeq(telefone_limpo, 7, n))
             ELSE IF n = 11
                  THEN Accepted(<<"(">> \o SubSeq(telefone_limpo, 1, 2) \o <<")", " ">>
                                \o SubSeq(telefone_limpo, 3, 7) \o <<"-">>
                                \o SubSeq(telefone_limpo, 8, n))
             ELSE Accepted(raw)

\* PerfilUsuarioForm.clean_telefone
clean_telefone_perfil(raw) ==
    IF raw = <<>> THEN Accepted(raw)
    ELSE LET telefone_limpo == filter_isdigit(raw)
             n == Len(telefone_limpo)
         IN  IF n < 10 THEN ValidationError(MsgTelefoneCurto)
             ELSE IF n = 10
                  THEN Accepted(<<"(">> \o SubSeq(telefone_limpo, 1, 2) \o <<")", " ">>
                                \o SubSeq(telefone_limpo, 3, 6) \o <<"-">>
                                \o SubSeq(telefone_limpo, 7, n))
             ELSE IF n = 11
                  THEN Accepted(<<"(">> \o SubSeq(telefone_limpo, 1, 2) \o <<")", " ">>
                                \o SubSeq(telefone_limpo, 3, 7) \o <<"-">>
                                \o SubSeq(telefone_limpo, 8, n))
             ELSE Accepted(raw)

CaracteresTelefone == {"0", "1", "-", "a", "U+0663", "U+00B2"}

InitTelefones ==
    /\ campo = "telefone"
    /\ formulario \in {"ClienteForm", "ConfiguracaoForm", "PerfilUsuarioForm"}
    /\ \E s \in SementesTelefone : Variante(valor, s, MaxEdicoes, CaracteresTelefone)
    /\ instance_pk = 0
    /\ clientes = ClientesIniciais
    /\ pc = "entrada"
    /\ resultado = Nenhum
    /\ anterior = Nenhum
    /\ SemRegistros
    /\ cleaned_data = SemDados
    /\ agora = 0

ConfiguracaoForm_clean_telefone ==
    /\ pc = "entrada"
    /\ formulario = "ConfiguracaoForm"
    /\ campo = "telefone"
    /\ resultado' = clean_telefone_configuracao(valor)
    /\ pc' = "validado"
    /\ UNCHANGED <<campo, valor, instance_pk, clientes, anterior, formulario, cleaned_data, agora, registros>>

PerfilUsuarioForm_clean_telefone ==
    /\ pc = "entrada"
    /\ formulario = "PerfilUsuarioForm"
    /\ campo = "telefone"
    /\ resultado' = clean_telefone_perfil(valor)
    /\ pc' = "validado"
    /\ UNCHANGED <<campo, valor, instance_pk, clientes, anterior, formulario, cleaned_data, agora, registros>>

NextTelefones ==
    \/ ClienteForm_clean_telefone
    \/ ConfiguracaoForm_clean_telefone
    \/ PerfilUsuarioForm_clean_telefone

SpecTelefones == InitTelefones /\ [][NextTelefones]_vars

----------------------------------------------------------------------------
(* Forms that link a record to a case (processo) and a client (cliente) *)

\* rows of Processo
MaxProcessos == 3

\* None, and a value that is not None, of an optional field of cleaned_data
None == <<>>
Some(v) == <<v>>

\* bool(x) of None, a model instance, a date or a datetime
truthy(x) == x # None

\* the instance of Cliente of primary key c
ClienteDe(c) == [pk |-> c]

\* Processo.cliente is a ForeignKey that is not null: every case has a client
Processos == {[pk |-> p, cliente |-> ClienteDe(c)] : p \in 1..MaxProcessos, c \in 1..MaxClientes}

Clientes == {ClienteDe(c) : c \in 1..MaxClientes}

MsgUmDosDoisAgenda == "E necessario informar pelo menos um processo ou cliente para o compromisso."
MsgUmDosDoisDocumento == "E necessario informar pelo menos um processo ou cliente para o documento."
MsgUmDosDoisFinanceiro == "E necessario informar pelo menos um processo ou cliente para a movimentacao."
MsgUmDosDoisUpload == "E necessario informar pelo menos um processo ou cliente para os documentos."
MsgClienteProcesso == "O cliente selecionado nao corresponde ao cliente do processo."
MsgPagoSemData == "Data de pagamento e obrigatoria quando o status e Pago."
MsgDataSemPago == "Status deve ser Pago quando a data de pagamento e informada."

\* An AgendaForm.clean that asks for both the case and the client.
clean_agenda_ambos(cd) ==
    IF ~truthy(cd.processo) \/ ~truthy(cd.cliente) THEN ValidationError(MsgUmDosDoisAgenda)
    ELSE IF truthy(cd.processo) /\ truthy(cd.cliente) /\ cd.processo[1].cliente # cd.cliente[1]
    THEN ValidationError(MsgClienteProcesso)
    ELSE Accepted(cd)

\* AgendaForm.clean
clean_agenda(cd) ==
    IF ~truthy(cd.processo) /\ ~truthy(cd.cliente) THEN ValidationError(MsgUmDosDoisAgenda)
    ELSE IF truthy(cd.processo) /\ truthy(cd.cliente) /\ cd.processo[1].cliente # cd.cliente[1]
    THEN ValidationError(MsgClienteProcesso)
    ELSE Accepted(cd)

\* DocumentoForm.clean
clean_documento(cd) ==
    IF ~truthy(cd.processo) /\ ~truthy(cd.cliente) THEN ValidationError(MsgUmDosDoisDocumento)
    ELSE IF truthy(cd.processo) /\ truthy(cd.cliente) /\ cd.processo[1].cliente # cd.cliente[1]
    THEN ValidationError(MsgClienteProcesso)
    ELSE Accepted(cd)

\* Financeiro.STATUS_CHOICES
STATUS_CHOICES == {"pendente", "pago", "recebido", "vencido", "cancelado"}

\* A FinanceiroForm.clean that takes a payment date with the status 'recebido' too.
clean_financeiro_recebido(cd) ==
    IF cd.status = Some("pago") /\ ~truthy(cd.data_pagamento)
    THEN ValidationError(MsgPagoSemData)
    ELSE IF truthy(cd.data_pagamento) /\ cd.status \notin {Some("pago"), Some("recebido")}
    THEN ValidationError(MsgDataSemPago)
    ELSE IF ~truthy(cd.processo) /\ ~truthy(cd.cliente) THEN ValidationError(MsgUmDosDoisFinanceiro)
    ELSE IF truthy(cd.processo) /\ truthy(cd.cliente) /\ cd.processo[1].cliente # cd.cliente[1]
    THEN ValidationError(MsgClienteProcesso)
    ELSE Accepted(cd)

\* FinanceiroForm.clean; cd.status is None when the status field was refused
clean_financeiro(cd) ==
    IF cd.status = Some("pago") /\ ~truthy(cd.data_pagamento)
    THEN ValidationError(MsgPagoSemData)
    ELSE IF truthy(cd.data_pagamento) /\ cd.status # Some("pago")
    THEN ValidationError(MsgDataSemPago)
    ELSE IF ~truthy(cd.processo) /\ ~truthy(cd.cliente) THEN ValidationError(MsgUmDosDoisFinanceiro)
    ELSE IF truthy(cd.processo) /\ truthy(cd.cliente) /\ cd.processo[1].cliente # cd.cliente[1]
    THEN ValidationError(MsgClienteProcesso)
    ELSE Accepted(cd)

\* DocumentoUploadForm.clean
clean_upload(cd) ==
    IF ~truthy(cd.processo) /\ ~truthy(cd.cliente) THEN ValidationError(MsgUmDosDoisUpload)
    ELSE Accepted(cd)

\* the case and the client of a submission, after the fields were cleaned
Vinculos ==
    [processo : {None} \cup {Some(p) : p \in Processos},
     cliente : {None} \cup {Some(c) : c \in Clientes}]

InitVinculos ==
    /\ campo = "clean"
    /\ formulario \in {"AgendaForm", "DocumentoForm", "FinanceiroForm", "DocumentoUploadForm"}
    /\ \E v \in Vinculos :
          IF formulario = "FinanceiroForm"
          THEN \E st \in {None} \cup {Some(x) : x \in STATUS_CHOICES}, dp \in {None, Some(0)} :
                  cleaned_data = [processo |-> v.processo, cliente |-> v.cliente,
                                  status |-> st, data_pagamento |-> dp]
          ELSE cleaned_data = v
    /\ valor = <<>>
    /\ instance_pk = 0
    /\ clientes = ClientesIniciais
    /\ pc = "entrada"
    /\ resultado = Nenhum
    /\ anterior = Nenhum
    /\ SemRegistros
    /\ agora = 0

AgendaForm_clean ==
    /\ pc = "entrada"
    /\ formulario = "AgendaForm"
    /\ campo = "clean"
    /\ resultado' = clean_agenda(cleaned_data)
    /\ pc' = "validado"
    /\ UNCHANGED <<campo, valor, instance_pk, clientes, anterior, formulario, cleaned_data, agora, registros>>

DocumentoForm_clean ==
    /\ pc = "entrada"
    /\ formulario = "DocumentoForm"
    /\ campo = "clean"
    /\ resultado' = clean_documento(cleaned_data)
    /\ pc' = "validado"
    /\ UNCHANGED <<campo, valor, instance_pk, clientes, anterior, formulario, cleaned_data, agora, registros>>

FinanceiroForm_clean ==
    /\ pc = "entrada"
    /\ formulario = "FinanceiroForm"
    /\ campo = "clean"
    /\ resultado' = clean_financeiro(cleaned_data)
    /\ pc' = "validado"
    /\ UNCHANGED <<campo, valor, instance_pk, clientes, anterior, formulario, cleaned_data, agora, registros>>

DocumentoUploadForm_clean ==
    /\ pc = "entrada"
    /\ formulario = "DocumentoUploadForm"
    /\ campo = "clean"
    /\ resultado' = clean_upload(cleaned_data)
    /\ pc' = "validado"
    /\ UNCHANGED <<campo, valor, instance_pk, clientes, anterior, formulario, cleaned_data, agora, registros>>

NextVinculos ==
    \/ AgendaForm_clean
    \/ DocumentoForm_clean
    \/ FinanceiroForm_clean
    \/ DocumentoUploadForm_clean

SpecVinculos == InitVinculos /\ [][NextVinculos]_vars

----------------------------------------------------------------------------
(* Dates and times *)

\* A datetime is an integer number of clock units, a date an integer number of days.
\* clock units of one day
UnidadesPorDia == 2
\* clock units that may pass between two calls of timezone.now() in one method
MaxDecorrido == 1
\* days, or clock units, explored on each side of a limit
MaxData == 2

\* datetime.date()
date(dt) == dt \div UnidadesPorDia

\* timedelta(days=n), added to a datetime
timedelta_days(n) == n * UnidadesPorDia

\* timezone.now() of the k-th call made by the method that runs
timezone_now(k) == agora[k]

\* the readings of the clock by a method: the first one within day 0, no reading
\* earlier than the one before
Relogios ==
    {<<t, t + d>> : t \in 0..(UnidadesPorDia - 1), d \in 0..MaxDecorrido}

MsgDataFim == "A data de fim deve ser posterior a data de inicio."
MsgFrequencia == "Para compromissos recorrentes, a frequencia deve ser informada."
MsgDataInicio == "A data de inicio nao pode ser posterior a data de fim."
MsgValorMinimo == "O valor minimo nao pode ser maior que o valor maximo."

\* bool(x) of None or a Decimal
decimal_truthy(x) == x # None /\ x # Some(0)

\* An Agenda.clean that lets a compromisso end when it starts.
Agenda_clean_nao_estrito(self) ==
    IF self.data_fim = None \/ self.data_inicio = None THEN Raised("TypeError")
    ELSE IF self.data_fim[1] < self.data_inicio[1] THEN ValidationError(MsgDataFim)
    ELSE IF self.recorrente /\ self.frequencia_recorrencia = "" THEN ValidationError(MsgFrequencia)
    ELSE Accepted(self)

\* Agenda.clean; comparing None with <= raises TypeError
Agenda_clean(self) ==
    IF self.data_fim = None \/ self.data_inicio = None THEN Raised("TypeError")
    ELSE IF self.data_fim[1] <= self.data_inicio[1] THEN ValidationError(MsgDataFim)
    ELSE IF self.recorrente /\ self.frequencia_recorrencia = "" THEN ValidationError(MsgFrequencia)
    ELSE Accepted(self)

\* AgendaFiltroForm.clean
clean_agenda_filtro(cd) ==
    IF truthy(cd.data_inicio) /\ truthy(cd.data_fim) /\ cd.data_inicio[1] > cd.data_fim[1]
    THEN ValidationError(MsgDataInicio)
    ELSE Accepted(cd)

\* FinanceiroFiltroForm.clean
clean_financeiro_filtro(cd) ==
    IF truthy(cd.data_inicio) /\ truthy(cd.data_fim) /\ cd.data_inicio[1] > cd.data_fim[1]
    THEN ValidationError(MsgDataInicio)
    ELSE IF decimal_truthy(cd.valor_min) /\ decimal_truthy(cd.valor_max)
            /\ cd.valor_min[1] > cd.valor_max[1]
    THEN ValidationError(MsgValorMinimo)
    ELSE Accepted(cd)

\* LogSistemaFiltroForm.clean
clean_log_filtro(cd) ==
    IF truthy(cd.data_inicio) /\ truthy(cd.data_fim) /\ cd.data_inicio[1] > cd.data_fim[1]
    THEN ValidationError(MsgDataInicio)
    ELSE Accepted(cd)

\* an optional date or datetime near the origin
DatasOpcionais == {None} \cup {Some(d) : d \in 0..MaxData}

\* the fields Agenda.clean reads, after clean_fields
InitAgenda ==
    /\ formulario = "Agenda"
    /\ campo = "clean"
    /\ valor = <<>>
    /\ instance_pk = 0
    /\ agora \in Relogios
    /\ cleaned_data \in [data_inicio : DatasOpcionais, data_fim : DatasOpcionais,
                         recorrente : BOOLEAN, frequencia_recorrencia : {"", "semanal"}]

\* the fields the clean method of a filter form reads
InitFiltros ==
    /\ formulario \in {"AgendaFiltroForm", "FinanceiroFiltroForm", "LogSistemaFiltroForm"}
    /\ campo = "clean"
    /\ valor = <<>>
    /\ instance_pk = 0
    /\ agora \in Relogios
    /\ IF formulario = "FinanceiroFiltroForm"
       THEN cleaned_data \in [data_inicio : DatasOpcionais, data_fim : DatasOpcionais,
                              valor_min : {None, Some(0), Some(1), Some(2)},
                              valor_max : {None, Some(0), Some(1)}]
       ELSE cleaned_data \in [data_inicio : DatasOpcionais, data_fim : DatasOpcionais]

Agenda_full_clean ==
    /\ pc = "entrada"
    /\ formulario = "Agenda"
    /\ campo = "clean"
    /\ resultado' = Agenda_clean(cleaned_data)
    /\ pc' = "validado"
    /\ UNCHANGED <<campo, valor, instance_pk, clientes, anterior, formulario, cleaned_data, agora, registros>>

AgendaFiltroForm_clean ==
    /\ pc = "entrada"
    /\ formulario = "AgendaFiltroForm"
    /\ campo = "clean"
    /\ resultado' = clean_agenda_filtro(cleaned_data)
    /\ pc' = "validado"
    /\ UNCHANGED <<campo, valor, instance_pk, clientes, anterior, formulario, cleaned_data, agora, registros>>

FinanceiroFiltroForm_clean ==
    /\ pc = "entrada"
    /\ formulario = "FinanceiroFiltroForm"
    /\ campo = "clean"
    /\ resultado' = clean_financeiro_filtro(cleaned_data)
    /\ pc' = "validado"
    /\ UNCHANGED <<campo, valor, instance_pk, clientes, anterior, formulario, cleaned_data, agora, registros>>

LogSistemaFiltroForm_clean ==
    /\ pc = "entrada"
    /\ formulario = "LogSistemaFiltroForm"
    /\ campo = "clean"
    /\ resultado' = clean_log_filtro(cleaned_data)
    /\ pc' = "validado"
    /\ UNCHANGED <<campo, valor, instance_pk, clientes, anterior, formulario, cleaned_data, agora, registros>>

(* AgendaForm.clean_data_hora *)

\* timedelta(days=730) of limite_futuro
DiasLimiteFuturo == 730

MsgPassado == "A data e hora nao podem ser no passado."
MsgMuitoFuturo == "A data nao pode ser mais de 2 anos no futuro."

\* A clean_data_hora that refuses the limit itself.
clean_data_hora_ate_limite(data_hora, pk) ==
    IF ~truthy(data_hora) THEN Accepted(data_hora)
    ELSE IF pk = 0 /\ data_hora[1] < timezone_now(1) THEN ValidationError(MsgPassado)
    ELSE LET limite_futuro ==
                 timezone_now(IF pk = 0 THEN 2 ELSE 1) + timedelta_days(DiasLimiteFuturo)
         IN  IF data_hora[1] >= limite_futuro THEN ValidationError(MsgMuitoFuturo)
             ELSE Accepted(data_hora)

\* `not self.instance.pk and data_hora < timezone.now()` reads the clock only for a
\* new instance, so limite_futuro is the second reading then and the first otherwise.
clean_data_hora(data_hora, pk) ==
    IF ~truthy(data_hora) THEN Accepted(data_hora)
    ELSE IF pk = 0 /\ data_hora[1] < timezone_now(1) THEN ValidationError(MsgPassado)
    ELSE LET limite_futuro ==
                 timezone_now(IF pk = 0 THEN 2 ELSE 1) + timedelta_days(DiasLimiteFuturo)
         IN  IF data_hora[1] > limite_futuro THEN ValidationError(MsgMuitoFuturo)
             ELSE Accepted(data_hora)

\* a datetime around the first reading of the clock or around the limit
InitDataHora ==
    /\ formulario = "AgendaForm"
    /\ campo = "data_hora"
    /\ valor = <<>>
    /\ instance_pk \in {0, 1}
    /\ agora \in Relogios
    /\ \E d \in (0 - MaxData)..(MaxData + MaxDecorrido), limite \in BOOLEAN :
          cleaned_data =
              [data_hora |-> Some(agora[1] + d
                                  + IF limite THEN timedelta_days(DiasLimiteFuturo) ELSE 0)]

AgendaForm_clean_data_hora ==
    /\ pc = "entrada"
    /\ formulario = "AgendaForm"
    /\ campo = "data_hora"
    /\ resultado' = clean_data_hora(cleaned_data.data_hora, instance_pk)
    /\ pc' = "validado"
    /\ UNCHANGED <<campo, valor, instance_pk, clientes, anterior, formulario, cleaned_data, agora, registros>>

(* Dates of completion *)

\* timedelta(days=1825) of limite_passado
DiasLimitePassado == 1825

MsgCumprimentoObrigatorio ==
    "Data de cumprimento e obrigatoria quando o prazo esta marcado como cumprido."
MsgCumprimentoSemCumprido ==
    "Nao e possivel informar data de cumprimento se o prazo nao esta marcado como cumprido."
MsgCumprimentoFuturo == "Data de cumprimento nao pode ser no futuro."
MsgPagamentoFuturo == "A data de pagamento nao pode ser no futuro."
MsgPagamentoPassado == "A data de pagamento nao pode ser mais de 5 anos no passado."
MsgAndamentoFuturo == "Data do andamento nao pode ser no futuro."

\* bool(x) of None or a bool
bool_truthy(x) == x = Some(TRUE)

\* PrazoForm.Meta.fields
PrazoForm_Meta_fields ==
    {"processo", "descricao", "data_vencimento", "data_cumprimento",
     "status", "prioridade", "responsavel", "observacoes", "notificado"}

\* self.cleaned_data of a ModelForm, as far as clean_data_cumprimento reads it: a
\* submitted value reaches it only under the name of a declared field, and
\* cleaned_data.get returns None for any other name.
cleaned_data_de(fields, post) ==
    [k \in {"data_cumprimento", "cumprido"} |-> IF k \in fields THEN post[k] ELSE None]

\* PrazoForm.clean_data_cumprimento
clean_data_cumprimento(cd) ==
    IF bool_truthy(cd.cumprido) /\ ~truthy(cd.data_cumprimento)
    THEN ValidationError(MsgCumprimentoObrigatorio)
    ELSE IF ~bool_truthy(cd.cumprido) /\ truthy(cd.data_cumprimento)
    THEN ValidationError(MsgCumprimentoSemCumprido)
    ELSE IF truthy(cd.data_cumprimento) /\ cd.data_cumprimento[1] > date(timezone_now(1))
    THEN ValidationError(MsgCumprimentoFuturo)
    ELSE Accepted(cd.data_cumprimento)

\* FinanceiroForm.clean_data_pagamento
clean_data_pagamento(data_pagamento) ==
    IF ~truthy(data_pagamento) THEN Accepted(data_pagamento)
    ELSE IF data_pagamento[1] > date(timezone_now(1)) THEN ValidationError(MsgPagamentoFuturo)
    ELSE LET limite_passado == date(timezone_now(2)) - DiasLimitePassado
         IN  IF data_pagamento[1] < limite_passado THEN ValidationError(MsgPagamentoPassado)
             ELSE Accepted(data_pagamento)

\* An AndamentoForm.clean_data that takes today for the future.
clean_data_hoje_futuro(data) ==
    IF ~truthy(data) THEN Accepted(data)
    ELSE IF data[1] >= date(timezone_now(1)) THEN ValidationError(MsgAndamentoFuturo)
    ELSE Accepted(data)

\* AndamentoForm.clean_data
clean_data(data) ==
    IF ~truthy(data) THEN Accepted(data)
    ELSE IF data[1] > date(timezone_now(1)) THEN ValidationError(MsgAndamentoFuturo)
    ELSE Accepted(data)

\* an optional date around today or around the limit of the past
DatasDeConclusao ==
    {None} \cup {Some(d) : d \in (0 - MaxData)..(MaxData + 1)}
           \cup {Some(d - DiasLimitePassado) : d \in (0 - MaxData)..(MaxData + 1)}

InitConclusao ==
    /\ formulario \in {"PrazoForm", "FinanceiroForm", "AndamentoForm"}
    /\ instance_pk = 0
    /\ agora \in Relogios
    /\ \E d \in DatasDeConclusao :
          IF formulario = "PrazoForm"
          THEN /\ campo = "data_cumprimento"
               /\ cleaned_data = SemDados
               /\ \E c \in {None, Some(FALSE), Some(TRUE)} :
                     valor = [data_cumprimento |-> d, cumprido |-> c]
          ELSE IF formulario = "FinanceiroForm"
          THEN campo = "data_pagamento" /\ cleaned_data = [data_pagamento |-> d] /\ valor = <<>>
          ELSE campo = "data" /\ cleaned_data = [data |-> d] /\ valor = <<>>

\* The fields of the submission are cleaned in the order of Meta.fields: when
\* clean_data_cumprimento runs, cleaned_data holds the declared fields only.
PrazoForm_clean_data_cumprimento ==
    /\ pc = "entrada"
    /\ formulario = "PrazoForm"
    /\ campo = "data_cumprimento"
    /\ cleaned_data' = cleaned_data_de(PrazoForm_Meta_fields, valor)
    /\ resultado' = clean_data_cumprimento(cleaned_data')
    /\ pc' = "validado"
    /\ UNCHANGED <<campo, valor, instance_pk, clientes, anterior, formulario, agora, registros>>

FinanceiroForm_clean_data_pagamento ==
    /\ pc = "entrada"
    /\ formulario = "FinanceiroForm"
    /\ campo = "data_pagamento"
    /\ resultado' = clean_data_pagamento(cleaned_data.data_pagamento)
    /\ pc' = "validado"
    /\ UNCHANGED <<campo, valor, instance_pk, clientes, anterior, formulario, cleaned_data, agora, registros>>

AndamentoForm_clean_data ==
    /\ pc = "entrada"
    /\ formulario = "AndamentoForm"
    /\ campo = "data"
    /\ resultado' = clean_data(cleaned_data.data)
    /\ pc' = "validado"
    /\ UNCHANGED <<campo, valor, instance_pk, clientes, anterior, formulario, cleaned_data, agora, registros>>

(* A run of one of the methods that compare dates *)

InitDatas ==
    /\ clientes = ClientesIniciais
    /\ pc = "entrada"
    /\ resultado = Nenhum
    /\ anterior = Nenhum
    /\ SemRegistros
    /\ \/ InitAgenda
       \/ InitFiltros
       \/ InitDataHora
       \/ InitConclusao

NextDatas ==
    \/ Agenda_full_clean
    \/ AgendaFiltroForm_clean
    \/ FinanceiroFiltroForm_clean
    \/ LogSistemaFiltroForm_clean
    \/ AgendaForm_clean_data_hora
    \/ PrazoForm_clean_data_cumprimento
    \/ FinanceiroForm_clean_data_pagamento
    \/ AndamentoForm_clean_data

SpecDatas == InitDatas /\ [][NextDatas]_vars

----------------------------------------------------------------------------
(* Monetary amounts *)

\* whole units explored on each side of zero and of a limit
MaxDesvio == 1

\* A Decimal of two decimal places is <<u, c>>: u whole units (the floor of the
\* amount) and c hundredths, 0 <= c <= 99; Decimal('-0.01') is <<-1, 99>>.
\* a < b of two Decimals
decimal_lt(a, b) == a[1] < b[1] \/ (a[1] = b[1] /\ a[2] < b[2])

\* a <= b of two Decimals
decimal_le(a, b) == a = b \/ decimal_lt(a, b)

\* Decimal('0')
Zero == <<0, 0>>

\* Decimal('999999999.99')
ValorMaximo == <<999999999, 99>>

\* Decimal('-999999999.99')
SaldoMinimo == <<-1000000000, 1>>

MsgValorZero == "O valor deve ser maior que zero."
MsgValorAlto == "O valor e muito alto."
MsgValorTotalZero == "O valor total deve ser maior que zero."
MsgValorTotalAlto == "O valor total e muito alto."
MsgSaldoFora == "Saldo inicial fora dos limites permitidos."

\* FinanceiroForm.clean_valor
clean_valor(valor_) ==
    IF valor_ = None THEN Accepted(valor_)
    ELSE IF decimal_le(valor_[1], Zero) THEN ValidationError(MsgValorZero)
    ELSE IF decimal_lt(ValorMaximo, valor_[1]) THEN ValidationError(MsgValorAlto)
    ELSE Accepted(valor_)

\* OrcamentoForm.clean_valor_total
clean_valor_total(valor_) ==
    IF valor_ = None THEN Accepted(valor_)
    ELSE IF decimal_le(valor_[1], Zero) THEN ValidationError(MsgValorTotalZero)
    ELSE IF decimal_lt(ValorMaximo, valor_[1]) THEN ValidationError(MsgValorTotalAlto)
    ELSE Accepted(valor_)

\* ContaBancariaForm.clean_saldo_inicial
clean_saldo_inicial(saldo) ==
    IF saldo = None THEN Accepted(saldo)
    ELSE IF decimal_lt(saldo[1], SaldoMinimo) \/ decimal_lt(ValorMaximo, saldo[1])
    THEN ValidationError(MsgSaldoFora)
    ELSE Accepted(saldo)

\* the method of a form that checks its amount
clean_monetario(f, v) ==
    IF f = "FinanceiroForm" THEN clean_valor(v)
    ELSE IF f = "OrcamentoForm" THEN clean_valor_total(v)
    ELSE clean_saldo_inicial(v)

\* an optional amount of two decimal places around zero or around a limit
Montantes ==
    {None} \cup
    {Some(<<a + d, c>>) :
        a \in {SaldoMinimo[1], 0, ValorMaximo[1]},
        d \in (0 - MaxDesvio)..MaxDesvio,
        c \in (0..MaxDesvio) \cup ((99 - MaxDesvio)..99)}

InitValores ==
    /\ formulario \in {"FinanceiroForm", "OrcamentoForm", "ContaBancariaForm"}
    /\ campo = IF formulario = "FinanceiroForm" THEN "valor"
               ELSE IF formulario = "OrcamentoForm" THEN "valor_total"
               ELSE "saldo_inicial"
    /\ \E v \in Montantes : cleaned_data = [c \in {campo} |-> v]
    /\ valor = <<>>
    /\ instance_pk = 0
    /\ clientes = ClientesIniciais
    /\ pc = "entrada"
    /\ resultado = Nenhum
    /\ anterior = Nenhum
    /\ SemRegistros
    /\ agora = 0

FinanceiroForm_clean_valor ==
    /\ pc = "entrada"
    /\ formulario = "FinanceiroForm"
    /\ campo = "valor"
    /\ resultado' = clean_valor(cleaned_data.valor)
    /\ pc' = "validado"
    /\ UNCHANGED <<campo, valor, instance_pk, clientes, anterior, formulario, cleaned_data, agora, registros>>

OrcamentoForm_clean_valor_total ==
    /\ pc = "entrada"
    /\ formulario = "OrcamentoForm"
    /\ campo = "valor_total"
    /\ resultado' = clean_valor_total(cleaned_data.valor_total)
    /\ pc' = "validado"
    /\ UNCHANGED <<campo, valor, instance_pk, clientes, anterior, formulario, cleaned_data, agora, registros>>

ContaBancariaForm_clean_saldo_inicial ==
    /\ pc = "entrada"
    /\ formulario = "ContaBancariaForm"
    /\ campo = "saldo_inicial"
    /\ resultado' = clean_saldo_inicial(cleaned_data.saldo_inicial)
    /\ pc' = "validado"
    /\ UNCHANGED <<campo, valor, instance_pk, clientes, anterior, formulario, cleaned_data, agora, registros>>

NextValores ==
    \/ FinanceiroForm_clean_valor
    \/ OrcamentoForm_clean_valor_total
    \/ ContaBancariaForm_clean_saldo_inicial

SpecValores == InitValores /\ [][NextValores]_vars

----------------------------------------------------------------------------
(* Files *)

\* A file of cleaned_data is [enviado, name, size, content_type]: enviado is TRUE for
\* the UploadedFile of the request and FALSE for the FieldFile the instance already
\* holds, which the field returns when nothing is uploaded and which has no
\* attribute content_type.

\* 5 * 1024 * 1024, 2 * 1024 * 1024 and 10 * 1024 * 1024 bytes
TamanhoMaximoLogo == 5 * 1024 * 1024
TamanhoMaximoAvatar == 2 * 1024 * 1024
TamanhoMaximoArquivo == 10 * 1024 * 1024

tipos_permitidos == {"image/jpeg", "image/png", "image/gif", "image/webp"}

extensoes_permitidas ==
    {<<".", "p", "d", "f">>, <<".", "d", "o", "c">>, <<".", "d", "o", "c", "x">>,
     <<".", "t", "x", "t">>, <<".", "j", "p", "g">>, <<".", "j", "p", "e", "g">>,
     <<".", "p", "n", "g">>}

MsgLogoGrande == "O arquivo de logo nao pode ser maior que 5MB."
MsgAvatarGrande == "O arquivo de avatar nao pode ser maior que 2MB."
MsgFormatoImagem == "Formato de imagem nao suportado. Use JPEG, PNG, GIF ou WebP."
MsgArquivoGrande == "Arquivo muito grande. Tamanho maximo: 10MB."
MsgExtensao ==
    "Extensao nao permitida. Extensoes aceitas: .pdf, .doc, .docx, .txt, .jpg, .jpeg, .png"

Maiusculas == <<"A", "D", "E", "F", "P", "X">>
Minusculas == <<"a", "d", "e", "f", "p", "x">>

\* str.lower()
lower(s) ==
    [i \in 1..Len(s) |->
        IF \E k \in 1..Len(Maiusculas) : Maiusculas[k] = s[i]
        THEN Minusculas[CHOOSE k \in 1..Len(Maiusculas) : Maiusculas[k] = s[i]]
        ELSE s[i]]

\* os.path.splitext(name)[1] of a name without separators: from the last dot on,
\* empty when there is no dot or only dots come before the last one
splitext_1(name) ==
    LET pontos == {i \in 1..Len(name) : name[i] = "."}
        ultimo == CHOOSE i \in pontos : \A j \in pontos : j <= i
    IN  IF pontos = {} THEN <<>>
        ELSE IF \A i \in 1..(ultimo - 1) : name[i] = "." THEN <<>>
        ELSE SubSeq(name, ultimo, Len(name))

\* A clean_logo that looks at the type before the size.
clean_logo_tipo_primeiro(logo) ==
    IF logo = None THEN Accepted(logo)
    ELSE IF ~logo[1].enviado THEN Raised("AttributeError")
    ELSE IF logo[1].content_type \notin tipos_permitidos THEN ValidationError(MsgFormatoImagem)
    ELSE IF logo[1].size > TamanhoMaximoLogo THEN ValidationError(MsgLogoGrande)
    ELSE Accepted(logo)

\* ConfiguracaoForm.clean_logo
clean_logo(logo) ==
    IF logo = None THEN Accepted(logo)
    ELSE IF logo[1].size > TamanhoMaximoLogo THEN ValidationError(MsgLogoGrande)
    ELSE IF ~logo[1].enviado THEN Raised("AttributeError")
    ELSE IF logo[1].content_type \notin tipos_permitidos THEN ValidationError(MsgFormatoImagem)
    ELSE Accepted(logo)

\* PerfilUsuarioForm.clean_avatar
clean_avatar(avatar) ==
    IF avatar = None THEN Accepted(avatar)
    ELSE IF avatar[1].size > TamanhoMaximoAvatar THEN ValidationError(MsgAvatarGrande)
    ELSE IF ~avatar[1].enviado THEN Raised("AttributeError")
    ELSE IF avatar[1].content_type \notin tipos_permitidos THEN ValidationError(MsgFormatoImagem)
    ELSE Accepted(avatar)

\* DocumentoForm.clean_arquivo
clean_arquivo(arquivo) ==
    IF arquivo = None THEN Accepted(arquivo)
    ELSE IF arquivo[1].size > TamanhoMaximoArquivo THEN ValidationError(MsgArquivoGrande)
    ELSE LET nome_arquivo == lower(arquivo[1].name)
             extensao == splitext_1(nome_arquivo)
         IN  IF extensao \notin extensoes_permitidas THEN ValidationError(MsgExtensao)
             ELSE Accepted(arquivo)

NomesDeArquivo ==
    {<<"a", ".", "p", "d", "f">>, <<"A", ".", "P", "D", "F">>, <<"a", ".", "e", "x", "e">>,
     <<"a">>, <<".", "p", "d", "f">>, <<".", ".", "p", "d", "f">>, <<"a", ".">>,
     <<"a", ".", "p", "d", "f", ".", "e", "x", "e">>,
     <<"a", ".", "e", "x", "e", ".", "p", "d", "f">>,
     <<"a", ".", "j", "p", "e", "g">>, <<"a", ".", "p", "n", "g">>}

TiposDeConteudo ==
    tipos_permitidos \cup {"application/pdf", "text/html", "image/svg+xml"}

\* sizes around each of the three limits, and the smallest file that is not empty
Tamanhos ==
    {1} \cup {m + d : m \in {TamanhoMaximoLogo, TamanhoMaximoAvatar, TamanhoMaximoArquivo},
                      d \in (0 - MaxDesvio)..MaxDesvio}

InitArquivos ==
    /\ formulario \in {"ConfiguracaoForm", "PerfilUsuarioForm", "DocumentoForm"}
    /\ campo = IF formulario = "ConfiguracaoForm" THEN "logo"
               ELSE IF formulario = "PerfilUsuarioForm" THEN "avatar"
               ELSE "arquivo"
    /\ \/ cleaned_data = [c \in {campo} |-> None]
       \/ \E e \in BOOLEAN, n \in NomesDeArquivo, t \in Tamanhos, ct \in TiposDeConteudo :
             cleaned_data =
                 [c \in {campo} |->
                     Some([enviado |-> e, name |-> n, size |-> t, content_type |-> ct])]
    /\ valor = <<>>
    /\ instance_pk = 0
    /\ clientes = ClientesIniciais
    /\ pc = "entrada"
    /\ resultado = Nenhum
    /\ anterior = Nenhum
    /\ SemRegistros
    /\ agora = 0

ConfiguracaoForm_clean_logo ==
    /\ pc = "entrada"
    /\ formulario = "ConfiguracaoForm"
    /\ campo = "logo"
    /\ resultado' = clean_logo(cleaned_data.logo)
    /\ pc' = "validado"
    /\ UNCHANGED <<campo, valor, instance_pk, clientes, anterior, formulario, cleaned_data, agora, registros>>

PerfilUsuarioForm_clean_avatar ==
    /\ pc = "entrada"
    /\ formulario = "PerfilUsuarioForm"
    /\ campo = "avatar"
    /\ resultado' = clean_avatar(cleaned_data.avatar)
    /\ pc' = "validado"
    /\ UNCHANGED <<campo, valor, instance_pk, clientes, anterior, formulario, cleaned_data, agora, registros>>

DocumentoForm_clean_arquivo ==
    /\ pc = "entrada"
    /\ formulario = "DocumentoForm"
    /\ campo = "arquivo"
    /\ resultado' = clean_arquivo(cleaned_data.arquivo)
    /\ pc' = "validado"
    /\ UNCHANGED <<campo, valor, instance_pk, clientes, anterior, formulario, cleaned_data, agora, registros>>

NextArquivos ==
    \/ ConfiguracaoForm_clean_logo
    \/ PerfilUsuarioForm_clean_avatar
    \/ DocumentoForm_clean_arquivo

SpecArquivos == InitArquivos /\ [][NextArquivos]_vars

----------------------------------------------------------------------------
(* The CNPJ of the organization: ConfiguracaoForm.clean_cnpj *)

MsgCnpjQuatorze == "CNPJ deve ter 14 digitos."

\* len(set(s)) == 1
um_so_caractere(s) == s # <<>> /\ \A i \in 1..Len(s) : s[i] = s[1]

\* ConfiguracaoForm.clean_cnpj
clean_cnpj(raw) ==
    IF raw = <<>> THEN Accepted(raw)
    ELSE LET cnpj_limpo == filter_isdigit(raw)
         IN  IF Len(cnpj_limpo) # 14 THEN ValidationError(MsgCnpjQuatorze)
             ELSE IF um_so_caractere(cnpj_limpo) THEN ValidationError(MsgCnpjInvalido)
             ELSE Accepted(SubSeq(cnpj_limpo, 1, 2) \o <<".">> \o SubSeq(cnpj_limpo, 3, 5)
                           \o <<".">> \o SubSeq(cnpj_limpo, 6, 8) \o <<"/">>
                           \o SubSeq(cnpj_limpo, 9, 12) \o <<"-">>
                           \o SubSeq(cnpj_limpo, 13, Len(cnpj_limpo)))

\* A 14-digit value submitted as the tax ID of a client or of the organization.
InitCnpjs ==
    /\ formulario \in {"ClienteForm", "ConfiguracaoForm"}
    /\ campo = IF formulario = "ClienteForm" THEN "cpf_cnpj" ELSE "cnpj"
    /\ \E s \in SementesCnpj : Variante(valor, s, MaxEdicoesDigitos, DigitosAscii)
    /\ instance_pk = 0
    /\ clientes = ClientesIniciais
    /\ pc = "entrada"
    /\ resultado = Nenhum
    /\ anterior = Nenhum
    /\ SemRegistros
    /\ cleaned_data = SemDados
    /\ agora = 0

ConfiguracaoForm_clean_cnpj ==
    /\ pc = "entrada"
    /\ formulario = "ConfiguracaoForm"
    /\ campo = "cnpj"
    /\ resultado' = clean_cnpj(valor)
    /\ pc' = "validado"
    /\ UNCHANGED <<campo, valor, instance_pk, clientes, anterior, formulario, cleaned_data, agora, registros>>

NextCnpjs ==
    \/ ClienteForm_clean_cpf_cnpj
    \/ ConfiguracaoForm_clean_cnpj

SpecCnpjs == InitCnpjs /\ [][NextCnpjs]_vars

----------------------------------------------------------------------------
(* The e-mail of a client: the duplicate lookup of the form and the save of the view, *)
(* each a step of its own of the request that runs them                               *)

\* requests in flight at the same time
MaxPedidos == 2

MsgEmailDuplicado == "Ja existe um cliente cadastrado com este e-mail."

\* s.strip()
RECURSIVE strip(_)
strip(s) ==
    IF s = <<>> THEN s
    ELSE IF Head(s) = " " THEN strip(Tail(s))
    ELSE IF s[Len(s)] = " " THEN strip(SubSeq(s, 1, Len(s) - 1))
    ELSE s

\* Cliente.objects.filter(email=email), without the instance when it is saved
existing_email(email, pk, rows) ==
    IF pk # 0
    THEN {c \in rows : c.email = email /\ c.pk # pk}
    ELSE {c \in rows : c.email = email}

\* ClienteForm.clean_email
clean_email(raw, pk, rows) ==
    IF raw = <<>> THEN Accepted(raw)
    ELSE LET email == strip(lower(raw))
         IN  IF existing_email(email, pk, rows) # {}
             THEN ValidationError(MsgEmailDuplicado)
             ELSE Accepted(email)

\* What a user submits in the email field (required, stripped by the EmailField).
EmailsSubmetidos ==
    {<<"a", "@", "x">>, <<"A", "@", "x">>, <<"d", "@", "x">>, <<"e", "@", "x">>}

\* Stored clients, as far as the lookup reads them: no e-mail held by two of them.
ArmazensDeEmail ==
    {{},
     {[pk |-> 1, email |-> <<"a", "@", "x">>]},
     {[pk |-> 1, email |-> <<"a", "@", "x">>], [pk |-> 2, email |-> <<"d", "@", "x">>]}}

InitEmails ==
    /\ campo = "email"
    /\ formulario = "ClienteForm"
    /\ valor = <<>>
    /\ instance_pk = 0
    /\ clientes \in ArmazensDeEmail
    /\ pc = "pronto"
    /\ resultado = Nenhum
    /\ anterior = Nenhum
    /\ cleaned_data = SemDados
    /\ agora = 0
    /\ pedidos \in [1..MaxPedidos -> [pc : {"recebido"}, pk : {0} \cup Pks(clientes),
                                      email : EmailsSubmetidos, resultado : {Nenhum}]]
    /\ prazos = {}
    /\ configuracoes = {}
    /\ instancia = SemDados
    /\ linha = SemDados
    /\ gravacoes = 0

\* form.is_valid() of request r, as far as the e-mail goes: clean_email reads the rows.
ClienteForm_clean_email(r) ==
    LET p == pedidos[r]
        res == clean_email(p.email, p.pk, clientes)
    IN  /\ p.pc = "recebido"
        /\ pedidos' = [pedidos EXCEPT ![r].pc = IF res.tipo = "Accepted" THEN "valido"
                                                 ELSE "invalido",
                                      ![r].resultado = res]
        /\ UNCHANGED <<campo, valor, instance_pk, clientes, pc, resultado, anterior,
                       formulario, cleaned_data, agora,
                       prazos, configuracoes, instancia, linha, gravacoes>>

\* ClienteCreateView.form_valid of request r: form.save() inserts a row.
ClienteCreateView_form_valid(r) ==
    LET p == pedidos[r]
        novo == IF clientes = {} THEN 1
                ELSE 1 + CHOOSE k \in Pks(clientes) : \A j \in Pks(clientes) : j <= k
    IN  /\ p.pc = "valido"
        /\ p.pk = 0
        /\ clientes' = clientes \cup {[pk |-> novo, email |-> p.resultado.valor]}
        /\ pedidos' = [pedidos EXCEPT ![r].pc = "salvo", ![r].pk = novo]
        /\ UNCHANGED <<campo, valor, instance_pk, pc, resultado, anterior,
                       formulario, cleaned_data, agora,
                       prazos, configuracoes, instancia, linha, gravacoes>>

\* ClienteUpdateView.form_valid of request r: form.save() writes the row of the instance.
ClienteUpdateView_form_valid(r) ==
    LET p == pedidos[r]
    IN  /\ p.pc = "valido"
        /\ p.pk # 0
        /\ clientes' = {IF c.pk = p.pk THEN [c EXCEPT !.email = p.resultado.valor] ELSE c :
                            c \in clientes}
        /\ pedidos' = [pedidos EXCEPT ![r].pc = "salvo"]
        /\ UNCHANGED <<campo, valor, instance_pk, pc, resultado, anterior,
                       formulario, cleaned_data, agora,
                       prazos, configuracoes, instancia, linha, gravacoes>>

NextEmails ==
    \E r \in 1..MaxPedidos :
        \/ ClienteForm_clean_email(r)
        \/ ClienteCreateView_form_valid(r)
        \/ ClienteUpdateView_form_valid(r)

SpecEmails == InitEmails /\ [][NextEmails]_vars

----------------------------------------------------------------------------
(* The record a ModelForm builds from its cleaned data *)

\* construct_instance: the case and the client of the record are those of the
\* cleaned data; a field left empty is None in the record.
construct_instance(cd) == [processo |-> cd.processo, cliente |-> cd.cliente]

----------------------------------------------------------------------------
(* Deadlines: the rows of Prazo, the view that marks one as fulfilled and the *)
(* properties computed from a row when it is read                             *)

\* Prazo.STATUS_CHOICES
STATUS_PRAZO == {"pendente", "cumprido", "vencido"}

\* Prazo.dias_restantes; date.today() is the date of the clock
dias_restantes(self, hoje) ==
    IF self.status = "cumprido" THEN 0 ELSE self.data_vencimento - hoje

\* Prazo.is_vencido
is_vencido(self, hoje) == self.data_vencimento < hoje /\ self.status = "pendente"

\* Stored deadlines: one row whose columns vary, with or without a second row.
PrazosIniciais ==
    {{[pk |-> 1, data_vencimento |-> v, data_cumprimento |-> c, status |-> s]} \cup outros :
        v \in 0..MaxData, c \in {None, Some(0)}, s \in STATUS_PRAZO,
        outros \in {{}, {[pk |-> 2, data_vencimento |-> 1, data_cumprimento |-> None,
                          status |-> "pendente"]}}}

InitPrazos ==
    /\ campo = "prazo"
    /\ formulario = "Prazo"
    /\ valor = <<>>
    /\ instance_pk = 0
    /\ clientes = ClientesIniciais
    /\ pc = "pronto"
    /\ resultado = Nenhum
    /\ anterior = Nenhum
    /\ cleaned_data = SemDados
    /\ agora = <<0>>
    /\ pedidos = <<>>
    /\ prazos \in PrazosIniciais
    /\ configuracoes = {}
    /\ instancia = SemDados
    /\ linha = SemDados
    /\ gravacoes = 0

\* prazo_marcar_cumprido(request, pk) on a stored deadline: the instance gets the
\* attribute cumprido, which is no column, and today's date; save() writes the
\* columns of the instance.  The request served is appended to pedidos.
prazo_marcar_cumprido(pk) ==
    /\ Len(pedidos) < MaxPedidos
    /\ \E row \in prazos :
          /\ row.pk = pk
          /\ LET prazo == [pk |-> row.pk, data_vencimento |-> row.data_vencimento,
                           status |-> row.status,
                           data_cumprimento |-> Some(date(timezone_now(1))),
                           cumprido |-> TRUE]
                 salvo == [pk |-> prazo.pk, data_vencimento |-> prazo.data_vencimento,
                           data_cumprimento |-> prazo.data_cumprimento,
                           status |-> prazo.status]
             IN  /\ instancia' = prazo
                 /\ linha' = salvo
                 /\ prazos' = (prazos \ {row}) \cup {salvo}
                 /\ resultado' = Accepted([success |-> TRUE, cumprido |-> prazo.cumprido])
    /\ gravacoes' = 1
    /\ pedidos' = Append(pedidos, [pk |-> pk, data |-> date(timezone_now(1))])
    /\ instance_pk' = pk
    /\ campo' = "prazo"
    /\ pc' = "respondido"
    /\ UNCHANGED <<valor, clientes, anterior, formulario, cleaned_data, agora, configuracoes>>

\* get_object_or_404(Prazo, pk=pk) of a pk that is not stored
prazo_marcar_cumprido_404(pk) ==
    /\ \A row \in prazos : row.pk # pk
    /\ resultado' = Raised("Http404")
    /\ instance_pk' = pk
    /\ campo' = "prazo"
    /\ pc' = "respondido"
    /\ UNCHANGED <<valor, clientes, anterior, formulario, cleaned_data, agora, registros>>

\* A later read of the stored deadline pk: prazo.dias_restantes
Prazo_dias_restantes(pk) ==
    /\ \E row \in prazos :
          /\ row.pk = pk
          /\ resultado' = Accepted(Some(dias_restantes(row, date(timezone_now(1)))))
    /\ instance_pk' = pk
    /\ campo' = "dias_restantes"
    /\ pc' = "lido"
    /\ UNCHANGED <<valor, clientes, anterior, formulario, cleaned_data, agora, registros>>

\* A later read of the stored deadline pk: prazo.is_vencido
Prazo_is_vencido(pk) ==
    /\ \E row \in prazos :
          /\ row.pk = pk
          /\ resultado' = Accepted(Some(is_vencido(row, date(timezone_now(1)))))
    /\ instance_pk' = pk
    /\ campo' = "is_vencido"
    /\ pc' = "lido"
    /\ UNCHANGED <<valor, clientes, anterior, formulario, cleaned_data, agora, registros>>

\* Time passes between two requests.
PassarTempo ==
    /\ date(agora[1] + 1) <= MaxData + 1
    /\ agora' = <<agora[1] + 1>>
    /\ UNCHANGED <<campo, valor, instance_pk, clientes, pc, resultado, anterior,
                   formulario, cleaned_data, registros>>

NextPrazos ==
    \/ \E pk \in 1..2 : prazo_marcar_cumprido(pk)
    \/ \E pk \in 1..2 : prazo_marcar_cumprido_404(pk)
    \/ \E pk \in 1..2 : Prazo_dias_restantes(pk)
    \/ \E pk \in 1..2 : Prazo_is_vencido(pk)
    \/ PassarTempo

SpecPrazos == InitPrazos /\ [][NextPrazos]_vars

----------------------------------------------------------------------------
(* The configuration entries: Configuracao.get_valor and Configuracao.set_valor *)

Chaves == {"k1", "k2"}

Valores == {<<"a">>, <<"b">>}

\* Stored entries: at most one per chave (unique=True), active or not.
ConfiguracoesIniciais ==
    {rows \in SUBSET [chave : Chaves, valor : Valores, ativo : BOOLEAN] :
        \A c1, c2 \in rows : c1.chave = c2.chave => c1 = c2}

\* Configuracao.get_valor(chave, default)
get_valor(chave, default, rows) ==
    IF \E config \in rows : config.chave = chave /\ config.ativo
    THEN LET config == CHOOSE c \in rows : c.chave = chave /\ c.ativo IN Some(config.valor)
    ELSE default

\* Configuracao.set_valor(chave, valor): the rows after the call
set_valor(chave, valor_, rows) ==
    IF \E config \in rows : config.chave = chave
    THEN {IF config.chave = chave THEN [config EXCEPT !.valor = valor_] ELSE config :
              config \in rows}
    ELSE rows \cup {[chave |-> chave, valor |-> valor_, ativo |-> TRUE]}

InitConfiguracoes ==
    /\ campo = "configuracao"
    /\ formulario = "Configuracao"
    /\ valor = <<>>
    /\ instance_pk = 0
    /\ clientes = ClientesIniciais
    /\ pc = "pronto"
    /\ resultado = Nenhum
    /\ anterior = Nenhum
    /\ cleaned_data = SemDados
    /\ agora = 0
    /\ pedidos = <<>>
    /\ prazos = {}
    /\ configuracoes \in ConfiguracoesIniciais
    /\ instancia = SemDados
    /\ linha = SemDados
    /\ gravacoes = 0

\* Configuracao.set_valor(chave, v); the call returns the entry
Configuracao_set_valor(chave, v) ==
    /\ configuracoes' = set_valor(chave, v, configuracoes)
    /\ valor' = [chave |-> chave, valor |-> v]
    /\ resultado' = Accepted(CHOOSE c \in configuracoes' : c.chave = chave)
    /\ campo' = "set_valor"
    /\ pc' = "definido"
    /\ anterior' = Nenhum
    /\ UNCHANGED <<instance_pk, clientes, formulario, cleaned_data, agora,
                   pedidos, prazos, instancia, linha, gravacoes>>

\* Configuracao.get_valor(chave), with the default None
Configuracao_get_valor(chave) ==
    /\ anterior' = IF pc = "definido" THEN Accepted(valor) ELSE Nenhum
    /\ valor' = [chave |-> chave, valor |-> <<>>]
    /\ resultado' = Accepted(get_valor(chave, None, configuracoes))
    /\ campo' = "get_valor"
    /\ pc' = "lido"
    /\ UNCHANGED <<instance_pk, clientes, formulario, cleaned_data, agora, registros>>

NextConfiguracoes ==
    \/ \E chave \in Chaves, v \in Valores : Configuracao_set_valor(chave, v)
    \/ \E chave \in Chaves : Configuracao_get_valor(chave)

SpecConfiguracoes == InitConfiguracoes /\ [][NextConfiguracoes]_vars

----------------------------------------------------------------------------
(* The formatted size of a backup and of a document.  A size is a record [m, e] *)
(* that stands for the number m * 1024^e: a byte count has e >= 0, and a        *)
(* division by 1024.0 lowers e by one, which is exact in floating point.        *)

Pot1024(k) == IF k = 0 THEN 1 ELSE IF k = 1 THEN 1024 ELSE 1024 * 1024

\* x < 1024.0
menor_que_1024(x) ==
    \/ x.m = 0
    \/ x.e = 0 /\ x.m < 1024
    \/ x.e < 0 /\ x.m < 1024 * Pot1024(0 - x.e)

\* x / 1024.0
dividir_1024(x) == [m |-> x.m, e |-> x.e - 1]

\* f"{x:.1f}" of a number below 1024: its tenths, rounded half to even
formato_1f(x) ==
    LET d == Pot1024(0 - x.e)
        q == (10 * x.m) \div d
        r == (10 * x.m) % d
    IN  IF 2 * r > d \/ (2 * r = d /\ q % 2 = 1) THEN q + 1 ELSE q

\* `not self.tamanho_bytes`: None and 0 are falsy
tamanho_falsy(t) == t = None \/ t[1].m = 0

\* for unit in units: if x < 1024.0: return f"{x:.1f} {unit}"; x /= 1024.0
\* and the return after the loop; gives the string and the value left in the field
RECURSIVE formatar(_, _, _)
formatar(x, units, ultima) ==
    IF units = <<>> THEN [texto |-> <<formato_1f(x), ultima>>, campo |-> x]
    ELSE IF menor_que_1024(x) THEN [texto |-> <<formato_1f(x), Head(units)>>, campo |-> x]
    ELSE formatar(dividir_1024(x), Tail(units), ultima)

\* Backup.tamanho_formatado: the string returned and self.tamanho_bytes afterwards
Backup_formatado(self) ==
    IF tamanho_falsy(self.tamanho_bytes) THEN [texto |-> <<"N/A">>, campo |-> self.tamanho_bytes]
    ELSE LET f == formatar(self.tamanho_bytes[1], <<"B", "KB", "MB", "GB", "TB">>, "PB")
         IN  [texto |-> f.texto, campo |-> Some(f.campo)]

\* Documento.tamanho_formatado: the string returned and self.tamanho_arquivo afterwards
Documento_formatado(self) ==
    IF tamanho_falsy(self.tamanho_arquivo)
    THEN [texto |-> <<"0 bytes">>, campo |-> self.tamanho_arquivo]
    ELSE LET f == formatar(self.tamanho_arquivo[1], <<"bytes", "KB", "MB", "GB">>, "TB")
         IN  [texto |-> f.texto, campo |-> Some(f.campo)]

\* int(x) of an integer field when the row is written: the fraction is dropped
get_prep_value(t) ==
    IF t = None THEN None
    ELSE IF t[1].e >= 0 THEN t
    ELSE Some([m |-> t[1].m \div Pot1024(0 - t[1].e), e |-> 0])

\* Byte counts below 1024 PB, as the integer fields hold them.
TamanhosDeBackup ==
    {None} \cup {Some([m |-> m, e |-> e]) : m \in {0, 1, 512, 1023}, e \in 0..5}
           \cup {Some([m |-> m, e |-> 0]) : m \in {1024, 1075, 1536, 2047}}

\* Byte counts of a PositiveIntegerField (below 2 GB).
TamanhosDeDocumento ==
    {None} \cup {Some([m |-> m, e |-> e]) : m \in {0, 1, 512, 1023}, e \in 0..2}
           \cup {Some([m |-> m, e |-> 0]) : m \in {1024, 1075, 1536, 2047}}
           \cup {Some([m |-> 1, e |-> 3])}

\* An instance as loaded from its row; valor keeps the byte count of the row.  The
\* file of a document has the size that the last save stored.
InitTamanhos ==
    /\ campo = "tamanho_formatado"
    /\ formulario \in {"Backup", "Documento"}
    /\ IF formulario = "Backup"
       THEN \E t \in TamanhosDeBackup :
               /\ instancia = [tamanho_bytes |-> t]
               /\ valor = t
       ELSE \E t \in TamanhosDeDocumento, com_arquivo \in BOOLEAN :
               /\ (t = None => ~com_arquivo)
               /\ instancia = [tamanho_arquivo |-> t, arquivo |-> IF com_arquivo THEN t ELSE None]
               /\ valor = t
    /\ linha = instancia
    /\ instance_pk = 1
    /\ clientes = ClientesIniciais
    /\ pc = "carregado"
    /\ resultado = Nenhum
    /\ anterior = Nenhum
    /\ cleaned_data = SemDados
    /\ agora = 0
    /\ pedidos = <<>>
    /\ prazos = {}
    /\ configuracoes = {}
    /\ gravacoes = 0

\* backup.tamanho_formatado is read
Backup_tamanho_formatado ==
    /\ formulario = "Backup"
    /\ pc \in {"carregado", "lido"}
    /\ LET f == Backup_formatado(instancia)
       IN  /\ resultado' = Accepted(f.texto)
           /\ instancia' = [instancia EXCEPT !.tamanho_bytes = f.campo]
    /\ anterior' = resultado
    /\ pc' = IF pc = "carregado" THEN "lido" ELSE "relido"
    /\ UNCHANGED <<campo, valor, instance_pk, clientes, formulario, cleaned_data, agora,
                   pedidos, prazos, configuracoes, linha, gravacoes>>

\* documento.tamanho_formatado is read
Documento_tamanho_formatado ==
    /\ formulario = "Documento"
    /\ pc \in {"carregado", "lido"}
    /\ LET f == Documento_formatado(instancia)
       IN  /\ resultado' = Accepted(f.texto)
           /\ instancia' = [instancia EXCEPT !.tamanho_arquivo = f.campo]
    /\ anterior' = resultado
    /\ pc' = IF pc = "carregado" THEN "lido" ELSE "relido"
    /\ UNCHANGED <<campo, valor, instance_pk, clientes, formulario, cleaned_data, agora,
                   pedidos, prazos, configuracoes, linha, gravacoes>>

\* backup.save(): the columns of the instance are written
Backup_save ==
    /\ formulario = "Backup"
    /\ gravacoes = 0
    /\ linha' = [tamanho_bytes |-> get_prep_value(instancia.tamanho_bytes)]
    /\ gravacoes' = gravacoes + 1
    /\ UNCHANGED <<campo, valor, instance_pk, clientes, pc, resultado, anterior, formulario,
                   cleaned_data, agora, pedidos, prazos, configuracoes, instancia>>

\* Documento.save: the size is taken again from the file when there is one
Documento_save ==
    /\ formulario = "Documento"
    /\ gravacoes = 0
    /\ LET self == IF truthy(instancia.arquivo)
                   THEN [instancia EXCEPT !.tamanho_arquivo = instancia.arquivo]
                   ELSE instancia
       IN  /\ instancia' = self
           /\ linha' = [self EXCEPT !.tamanho_arquivo = get_prep_value(self.tamanho_arquivo)]
    /\ gravacoes' = gravacoes + 1
    /\ UNCHANGED <<campo, valor, instance_pk, clientes, pc, resultado, anterior, formulario,
                   cleaned_data, agora, pedidos, prazos, configuracoes>>

NextTamanhos ==
    \/ Backup_tamanho_formatado
    \/ Documento_tamanho_formatado
    \/ Backup_save
    \/ Documento_save

SpecTamanhos == InitTamanhos /\ [][NextTamanhos]_vars

----------------------------------------------------------------------------
(* A notification is marked as read: Notificacao.marcar_como_lida *)

\* marcar_como_lida without the test of self.lida
marcar_como_lida_sem_teste(self, now) ==
    [self |-> [self EXCEPT !.lida = TRUE, !.data_leitura = Some(now)], gravou |-> TRUE]

\* Notificacao.marcar_como_lida: the instance afterwards, and whether it was saved
marcar_como_lida(self, now) ==
    IF ~self.lida
    THEN [self |-> [self EXCEPT !.lida = TRUE, !.data_leitura = Some(now)], gravou |-> TRUE]
    ELSE [self |-> self, gravou |-> FALSE]

\* The notification row: lida and data_leitura are independent columns.
NotificacoesIniciais ==
    [lida : BOOLEAN, data_leitura : {None, Some(0)}]

\* The instance is loaded from its row; valor keeps the row as it was loaded.
InitNotificacoes ==
    /\ campo = "marcar_como_lida"
    /\ formulario = "Notificacao"
    /\ linha \in NotificacoesIniciais
    /\ instancia = linha
    /\ valor = linha
    /\ agora = <<0>>
    /\ instance_pk = 1
    /\ clientes = ClientesIniciais
    /\ pc = "carregado"
    /\ resultado = Nenhum
    /\ anterior = Nenhum
    /\ cleaned_data = SemDados
    /\ pedidos = <<>>
    /\ prazos = {}
    /\ configuracoes = {}
    /\ gravacoes = 0

\* notificacao.marcar_como_lida(); pedidos keeps the instant of each call
Notificacao_marcar_como_lida ==
    /\ formulario = "Notificacao"
    /\ Len(pedidos) < MaxPedidos
    /\ LET r == marcar_como_lida(instancia, timezone_now(1))
       IN  /\ instancia' = r.self
           /\ linha' = IF r.gravou THEN r.self ELSE linha
           /\ gravacoes' = IF r.gravou THEN gravacoes + 1 ELSE gravacoes
           /\ pedidos' = Append(pedidos, [instante |-> timezone_now(1), gravou |-> r.gravou])
    /\ pc' = "marcado"
    /\ UNCHANGED <<campo, valor, instance_pk, clientes, resultado, anterior, formulario,
                   cleaned_data, agora, prazos, configuracoes>>

NextNotificacoes ==
    \/ Notificacao_marcar_como_lida
    \/ PassarTempo

SpecNotificacoes == InitNotificacoes /\ [][NextNotificacoes]_vars

----------------------------------------------------------------------------
(* Properties *)

Validado == pc \in {"validado", "revalidado"}

\* d[i] of a digit string, i counted from 0
Dig(d, i) == DecimalValue[d[i + 1]]

\* f(s) = 0 when (s mod 11) < 2, otherwise 11 - (s mod 11)
ModOnze(s) == IF s % 11 < 2 THEN 0 ELSE 11 - (s % 11)

\* the sum of t[i] for i in lo..hi
RECURSIVE Somatorio(_, _, _)
Somatorio(t, lo, hi) == IF hi < lo THEN 0 ELSE t[hi] + Somatorio(t, lo, hi - 1)

SoAscii(s) == \A i \in 1..Len(s) : IsAsciiDigit(s[i])

UmDigitoRepetido(s) == \A i \in 1..Len(s) : s[i] = s[1]

\* the number of decimal digits of s
NumDigitos(s) == Cardinality({i \in 1..Len(s) : IsDecimal(s[i])})

\* the decimal digits of s, in order
Digitos(s) == SelectSeq(s, LAMBDA c : c \in DOMAIN DecimalValue)

C1_Caso ==
    /\ pc = "validado"
    /\ campo = "cpf_cnpj"
    /\ Len(valor) = 11
    /\ SoAscii(valor)
    /\ ~UmDigitoRepetido(valor)

\* C1: an 11-digit string that is not one digit repeated is accepted exactly when
\* d[9] = f(sum d[i]*(10-i), i = 0..8) and d[10] = f(sum d[i]*(11-i), i = 0..9);
\* any mismatch is rejected as an invalid CPF.
C1_CpfDigitosVerificadores ==
    C1_Caso =>
        LET c1 == ModOnze(Somatorio([i \in 0..8 |-> Dig(valor, i) * (10 - i)], 0, 8))
            c2 == ModOnze(Somatorio([i \in 0..9 |-> Dig(valor, i) * (11 - i)], 0, 9))
        IN  IF Dig(valor, 9) = c1 /\ Dig(valor, 10) = c2
            THEN resultado = Accepted(valor)
            ELSE resultado = ValidationError(MsgCpfInvalido)

\* an accepted 11-digit value that is not one of the seeds
C1_Witness == C1_Caso /\ resultado.tipo = "Accepted" /\ valor \notin SementesCpf

C2_Caso ==
    /\ pc = "validado"
    /\ campo = "cpf_cnpj"
    /\ Len(valor) = 14
    /\ SoAscii(valor)
    /\ ~UmDigitoRepetido(valor)

\* C2: a 14-digit string that is not one digit repeated is accepted exactly when
\* d[12] = f(sum d[i]*w1[i], i = 0..11) and d[13] = f(sum d[i]*w2[i], i = 0..12),
\* w1 = [5,4,3,2,9,8,7,6,5,4,3,2], w2 = [6,5,4,3,2,9,8,7,6,5,4,3,2].
C2_CnpjDigitosVerificadores ==
    C2_Caso =>
        LET w1 == <<5, 4, 3, 2, 9, 8, 7, 6, 5, 4, 3, 2>>
            w2 == <<6, 5, 4, 3, 2, 9, 8, 7, 6, 5, 4, 3, 2>>
            c1 == ModOnze(Somatorio([i \in 0..11 |-> Dig(valor, i) * w1[i + 1]], 0, 11))
            c2 == ModOnze(Somatorio([i \in 0..12 |-> Dig(valor, i) * w2[i + 1]], 0, 12))
        IN  IF Dig(valor, 12) = c1 /\ Dig(valor, 13) = c2
            THEN resultado = Accepted(valor)
            ELSE resultado = ValidationError(MsgCnpjInvalido)

\* an accepted 14-digit value that is not one of the seeds
C2_Witness == C2_Caso /\ resultado.tipo = "Accepted" /\ valor \notin SementesCnpj

\* C3: a value whose number of digits after the stripping is neither 11 nor 14 is
\* rejected with the wrong-length message, values without any digit included.
C3_TamanhoErrado ==
    (Validado /\ campo = "cpf_cnpj" /\ NumDigitos(valor) \notin {11, 14})
        => resultado = ValidationError(MsgTamanho)

\* a value without any digit was rejected for its length
C3_Witness ==
    /\ Validado
    /\ campo = "cpf_cnpj"
    /\ NumDigitos(valor) = 0
    /\ resultado = ValidationError(MsgTamanho)

\* C4: a value of 11 or 14 digits, all the same, is rejected, and with a reason that
\* is not the one an invalid check digit is rejected with.
C4_SequenciaTrivial ==
    (Validado /\ campo = "cpf_cnpj" /\ NumDigitos(valor) \in {11, 14}
        /\ UmDigitoRepetido(Digitos(valor)))
        => /\ resultado.tipo = "ValidationError"
           /\ resultado.mensagem \notin {MsgCpfInvalido, MsgCnpjInvalido}

\* DDD.DDD.DDD-DD of 11 digits, DD.DDD.DDD/DDDD-DD of 14
Pontuado(d) ==
    IF Len(d) = 11
    THEN SubSeq(d, 1, 3) \o <<".">> \o SubSeq(d, 4, 6) \o <<".">> \o SubSeq(d, 7, 9)
         \o <<"-">> \o SubSeq(d, 10, 11)
    ELSE SubSeq(d, 1, 2) \o <<".">> \o SubSeq(d, 3, 5) \o <<".">> \o SubSeq(d, 6, 8)
         \o <<"/">> \o SubSeq(d, 9, 12) \o <<"-">> \o SubSeq(d, 13, 14)

\* C5: an accepted tax ID is returned in its punctuated canonical form.
C5_FormaCanonica ==
    (pc = "validado" /\ campo = "cpf_cnpj" /\ resultado.tipo = "Accepted")
        => resultado.valor = Pontuado(Digitos(valor))

\* C6: validating the returned value of an accepted tax ID again accepts it and
\* returns the same value.
C6_Idempotente ==
    (pc = "revalidado" /\ campo = "cpf_cnpj")
        => /\ anterior.tipo = "Accepted"
           /\ valor = anterior.valor
           /\ resultado = Accepted(anterior.valor)

\* the returned value of an accepted tax ID with a leading zero was validated again
C6_Witness ==
    /\ pc = "revalidado"
    /\ campo = "cpf_cnpj"
    /\ anterior.tipo = "Accepted"
    /\ Head(anterior.valor) = "0"

\* C7: the digit string of an accepted tax ID holds ASCII digits only, has length 11
\* or 14 and is not one digit repeated.
C7_DigitosAscii ==
    (Validado /\ campo = "cpf_cnpj" /\ resultado.tipo = "Accepted")
        => /\ SoAscii(resultado.valor)
           /\ Len(resultado.valor) \in {11, 14}
           /\ ~UmDigitoRepetido(resultado.valor)

\* C8: the three validators end with a returned value or a ValidationError.
C8_Total == pc # "entrada" => resultado.tipo \in {"Accepted", "ValidationError"}

\* digits were converted in a value that also holds characters that are no digits
C8_Witness ==
    /\ pc = "validado"
    /\ campo = "cpf_cnpj"
    /\ \E i \in 1..Len(valor) : ~IsDecimal(valor[i])
    /\ NumDigitos(valor) \in {11, 14}
    /\ resultado.tipo = "Accepted"

MesmoDocumento(a, b) == Digitos(a) = Digitos(b)

DigitosValidos(raw) ==
    LET d == Digitos(raw)
    IN  \/ Len(d) = 11 /\ _validar_cpf(d) = "True"
        \/ Len(d) = 14 /\ _validar_cnpj(d) = "True"

\* C9: a submission whose tax ID passed the length and check-digit validation is
\* rejected as already registered exactly when another stored client holds the
\* same tax ID, and no two stored clients hold the same tax ID.
C9_Duplicidade ==
    /\ (pc = "submetido" /\ DigitosValidos(valor))
        => (resultado = ValidationError(MsgDuplicado)
                <=> \E c \in clientes : c.pk # instance_pk /\ MesmoDocumento(c.cpf_cnpj, valor))
    /\ \A c1, c2 \in clientes : c1.pk # c2.pk => ~MesmoDocumento(c1.cpf_cnpj, c2.cpf_cnpj)

\* C10: for a non-empty value with digits d, clean_telefone rejects as too short
\* when len(d) < 10, as invalid length when len(d) > 11, and returns
\* (d[0:2]) d[2:6]-d[6:10] for 10 digits, (d[0:2]) d[2:7]-d[7:11] for 11.
C10_Telefone ==
    (Validado /\ campo = "telefone" /\ valor # <<>>) =>
        LET d == Digitos(valor)
            P(a, b) == [i \in 1..(b - a) |-> d[a + i]]
        IN  IF Len(d) < 10 THEN resultado = ValidationError(MsgTelefoneCurto)
            ELSE IF Len(d) > 11 THEN resultado = ValidationError(MsgTelefoneTamanho)
            ELSE IF Len(d) = 10
            THEN resultado = Accepted(<<"(">> \o P(0, 2) \o <<")", " ">> \o P(2, 6)
                                      \o <<"-">> \o P(6, 10))
            ELSE resultado = Accepted(<<"(">> \o P(0, 2) \o <<")", " ">> \o P(2, 7)
                                      \o <<"-">> \o P(7, 11))

\* a number of more than 11 digits was rejected
C10_Witness ==
    /\ Validado
    /\ campo = "telefone"
    /\ NumDigitos(valor) > 11
    /\ resultado = ValidationError(MsgTelefoneTamanho)

\* C11: ConfiguracaoForm.clean_telefone and PerfilUsuarioForm.clean_telefone end, for
\* every value, as ClienteForm.clean_telefone does: the same verdict, the same
\* returned value, and a value of more than 11 digits is rejected.
C11_MesmoNormalizador ==
    (pc = "validado" /\ campo = "telefone"
        /\ formulario \in {"ConfiguracaoForm", "PerfilUsuarioForm"})
        => /\ resultado = clean_telefone(valor)
           /\ NumDigitos(valor) > 11 => resultado.tipo = "ValidationError"

\* C12: for a non-empty value with digits d, clean_cep rejects with the length
\* message when len(d) is not 8 and otherwise returns d[0:5] "-" d[5:8]; a returned
\* value has the stored format of five digits, a hyphen and three digits, and
\* cleaning a returned value again returns it unchanged.
C12_Cep ==
    /\ (Validado /\ campo = "cep" /\ valor # <<>>) =>
          LET d == Digitos(valor)
              P(a, b) == [i \in 1..(b - a) |-> d[a + i]]
          IN  IF Len(d) # 8 THEN resultado = ValidationError(MsgCepTamanho)
              ELSE /\ resultado = Accepted(P(0, 5) \o <<"-">> \o P(5, 8))
                   /\ cep_validator(resultado.valor)
    /\ (pc = "revalidado" /\ campo = "cep") =>
          /\ anterior.tipo = "Accepted"
          /\ valor = anterior.valor
          /\ resultado = anterior

\* a returned value of five digits, a hyphen and three digits was cleaned again
C12_Witness ==
    /\ pc = "revalidado"
    /\ campo = "cep"
    /\ Len(anterior.valor) = 9
    /\ anterior.valor[6] = "-"
    /\ resultado.tipo = "Accepted"

FormulariosDeVinculo == {"AgendaForm", "DocumentoForm", "FinanceiroForm", "DocumentoUploadForm"}

VinculoValidado == pc = "validado" /\ campo = "clean" /\ formulario \in FormulariosDeVinculo

\* C13: the clean method of the four forms never accepts a submission without case
\* and without client, and when one of the two is present it does not reject with
\* the message that asks for one of them.
C13_UmDosDois ==
    VinculoValidado =>
        IF cleaned_data.processo = <<>> /\ cleaned_data.cliente = <<>>
        THEN resultado.tipo = "ValidationError"
        ELSE resultado.mensagem \notin {MsgUmDosDoisAgenda, MsgUmDosDoisDocumento,
                                        MsgUmDosDoisFinanceiro, MsgUmDosDoisUpload}

\* a submission with a client and no case was accepted by AgendaForm
C13_Witness ==
    /\ VinculoValidado
    /\ formulario = "AgendaForm"
    /\ cleaned_data.processo = <<>>
    /\ cleaned_data.cliente # <<>>
    /\ resultado.tipo = "Accepted"

\* C14: a submission with a case and a client is accepted only if the client of the
\* case is the client supplied; a pair that does not match is rejected, with the
\* inconsistent-link message when no earlier rule of the form rejects it.
C14_VinculoConsistente ==
    (VinculoValidado /\ cleaned_data.processo # <<>> /\ cleaned_data.cliente # <<>>
        /\ cleaned_data.processo[1].cliente.pk # cleaned_data.cliente[1].pk)
        => /\ resultado.tipo = "ValidationError"
           /\ resultado.mensagem \in {MsgClienteProcesso, MsgPagoSemData, MsgDataSemPago}

DatasValidadas == pc = "validado" /\ campo = "clean"

\* C15: Agenda.clean accepts a pair of start and end exactly when end > start, so
\* equal ones are rejected (the recurrence rule aside); the clean method of the three
\* filter forms accepts a pair exactly when end >= start, so equal ones are accepted
\* (the rule of valor_min and valor_max aside), and never rejects for the dates when
\* one of them is missing.
C15_IntervaloDeDatas ==
    /\ (DatasValidadas /\ formulario = "Agenda"
            /\ cleaned_data.data_inicio # <<>> /\ cleaned_data.data_fim # <<>>) =>
          LET inicio == cleaned_data.data_inicio[1]
              fim == cleaned_data.data_fim[1]
          IN  /\ fim > inicio <=> resultado.mensagem # MsgDataFim
              /\ resultado.tipo \in {"Accepted", "ValidationError"}
              /\ (fim > inicio /\ (cleaned_data.recorrente => cleaned_data.frequencia_recorrencia # ""))
                    => resultado.tipo = "Accepted"
              /\ resultado.tipo = "Accepted" => fim > inicio
    /\ (DatasValidadas /\ formulario \in {"AgendaFiltroForm", "FinanceiroFiltroForm",
                                           "LogSistemaFiltroForm"}) =>
          IF cleaned_data.data_inicio # <<>> /\ cleaned_data.data_fim # <<>>
          THEN LET inicio == cleaned_data.data_inicio[1]
                   fim == cleaned_data.data_fim[1]
               IN  /\ fim >= inicio <=> resultado.mensagem # MsgDataInicio
                   /\ resultado.tipo = "Accepted" => fim >= inicio
                   /\ (fim >= inicio /\ formulario # "FinanceiroFiltroForm")
                         => resultado.tipo = "Accepted"
          ELSE resultado.mensagem # MsgDataInicio

\* equal start and end: rejected by Agenda.clean, accepted by a filter form
C15_Witness ==
    /\ DatasValidadas
    /\ cleaned_data.data_inicio # <<>>
    /\ cleaned_data.data_inicio = cleaned_data.data_fim
    /\ \/ formulario = "Agenda" /\ resultado = ValidationError(MsgDataFim)
       \/ formulario = "LogSistemaFiltroForm" /\ resultado.tipo = "Accepted"

DataHoraValidada == pc = "validado" /\ formulario = "AgendaForm" /\ campo = "data_hora"

\* C16: when a compromisso is created, clean_data_hora rejects a data_hora earlier
\* than the current time and accepts one from the current time up to 730 days
\* ahead; when one is edited nothing is rejected for being in the past; in both
\* cases a data_hora more than 730 days after the current time is rejected.  The
\* current time of a comparison is the reading of the clock that comparison makes.
C16_DataHora ==
    DataHoraValidada =>
        LET data_hora == cleaned_data.data_hora[1]
            dias730 == 730 * UnidadesPorDia
            lido == IF instance_pk = 0 THEN agora[2] ELSE agora[1]
        IN  /\ (instance_pk = 0 /\ data_hora < agora[1]) => resultado = ValidationError(MsgPassado)
            /\ (instance_pk = 0 /\ agora[1] <= data_hora /\ data_hora <= agora[1] + dias730)
                  => resultado = Accepted(<<data_hora>>)
            /\ (instance_pk # 0 /\ data_hora <= agora[1] + dias730)
                  => resultado = Accepted(<<data_hora>>)
            /\ data_hora > lido + dias730 => resultado = ValidationError(MsgMuitoFuturo)

\* a new compromisso exactly 730 days after the current time was accepted
C16_Witness ==
    /\ DataHoraValidada
    /\ instance_pk = 0
    /\ cleaned_data.data_hora[1] = agora[1] + 730 * UnidadesPorDia
    /\ resultado.tipo = "Accepted"

\* a compromisso in the past was accepted when edited
C16_WitnessEdicao ==
    /\ DataHoraValidada
    /\ instance_pk # 0
    /\ cleaned_data.data_hora[1] < agora[1]
    /\ resultado.tipo = "Accepted"

ConclusaoValidada ==
    /\ pc = "validado"
    /\ formulario \in {"PrazoForm", "FinanceiroForm", "AndamentoForm"}
    /\ campo \in {"data_cumprimento", "data_pagamento", "data"}

\* C17: clean_data_cumprimento, clean_data_pagamento and clean_data reject every
\* supplied date later than today, and reject no date up to today, today included,
\* with the message of a date in the future.
C17_ConclusaoNaoFutura ==
    (ConclusaoValidada /\ cleaned_data[campo] # <<>>) =>
        LET data == cleaned_data[campo][1]
            hoje == agora[1] \div UnidadesPorDia
        IN  IF data > hoje
            THEN resultado.tipo = "ValidationError"
            ELSE resultado.mensagem \notin
                     {MsgCumprimentoFuturo, MsgPagamentoFuturo, MsgAndamentoFuturo}

\* today's date was accepted by AndamentoForm.clean_data
C17_Witness ==
    /\ ConclusaoValidada
    /\ formulario = "AndamentoForm"
    /\ cleaned_data.data = <<agora[1] \div UnidadesPorDia>>
    /\ resultado.tipo = "Accepted"

ValorValidado ==
    /\ pc = "validado"
    /\ campo \in {"valor", "valor_total", "saldo_inicial"}
    /\ cleaned_data[campo] # <<>>

\* the amount <<u, c>> is below zero, and above 999999999.99
AbaixoDeZero(v) == v[1] < 0

AcimaDoMaximo(v) == v[1] > 999999999

\* C18: clean_valor and clean_valor_total accept a supplied amount v exactly when
\* 0 <= v <= 999999999.99, an amount equal to one of the two bounds included.
C18_FaixaInclusiva ==
    (ValorValidado /\ formulario \in {"FinanceiroForm", "OrcamentoForm"}) =>
        LET v == cleaned_data[campo][1]
        IN  resultado.tipo = "Accepted" <=> (~AbaixoDeZero(v) /\ ~AcimaDoMaximo(v))

\* the reason the validator of form f gives for an amount above its upper bound
RazaoMuitoAlto(f) == clean_monetario(f, <<(<<1000000000, 0>>)>>).mensagem

\* C19: each of the three validators rejects an amount below its lower bound and an
\* amount above its upper bound, and the reason it gives for the first is not the
\* reason it gives for the second.
C19_RazoesDistintas ==
    ValorValidado =>
        LET v == cleaned_data[campo][1]
            abaixo == IF formulario = "ContaBancariaForm"
                      THEN v[1] < -1000000000 \/ (v[1] = -1000000000 /\ v[2] < 1)
                      ELSE AbaixoDeZero(v)
        IN  /\ abaixo => /\ resultado.tipo = "ValidationError"
                         /\ resultado.mensagem # RazaoMuitoAlto(formulario)
            /\ AcimaDoMaximo(v) => resultado.tipo = "ValidationError"

\* a file was uploaded and the method of its field has run
ArquivoValidado ==
    /\ pc = "validado"
    /\ campo \in {"logo", "avatar", "arquivo"}
    /\ cleaned_data[campo] # <<>>
    /\ cleaned_data[campo][1].enviado

\* the name ends with a dot and the letters e, in any case, after a character that
\* is no dot
TemExtensao(name, e) ==
    \E k \in 2..Len(name) :
        /\ name[k] = "."
        /\ lower(SubSeq(name, k + 1, Len(name))) = e
        /\ \E i \in 1..(k - 1) : name[i] # "."

\* the type of the file is one the field allows: the content type of a logo or an
\* avatar, the extension of the name of an arquivo
TipoPermitido(c, f) ==
    IF c = "arquivo"
    THEN \E e \in {<<"p", "d", "f">>, <<"d", "o", "c">>, <<"d", "o", "c", "x">>,
                   <<"t", "x", "t">>, <<"j", "p", "g">>, <<"j", "p", "e", "g">>,
                   <<"p", "n", "g">>} : TemExtensao(f.name, e)
    ELSE f.content_type \in {"image/jpeg", "image/png", "image/gif", "image/webp"}

\* C20: clean_logo (5 MB), clean_avatar (2 MB) and clean_arquivo (10 MB) accept an
\* uploaded file exactly when its size is at most the limit and its type is allowed;
\* a size above the limit is rejected as too large, whatever the type, and an allowed
\* size with a type that is not allowed is rejected as an unsupported type.
C20_Arquivo ==
    ArquivoValidado =>
        LET f == cleaned_data[campo][1]
            maximo == IF campo = "logo" THEN 5242880
                      ELSE IF campo = "avatar" THEN 2097152 ELSE 10485760
        IN  IF f.size > maximo
            THEN /\ resultado.tipo = "ValidationError"
                 /\ resultado.mensagem \in {MsgLogoGrande, MsgAvatarGrande, MsgArquivoGrande}
            ELSE IF ~TipoPermitido(campo, f)
            THEN /\ resultado.tipo = "ValidationError"
                 /\ resultado.mensagem \in {MsgFormatoImagem, MsgExtensao}
            ELSE resultado = Accepted(<<f>>)

\* a logo above the limit and of a type that is not allowed was rejected as too large
C20_Witness ==
    /\ ArquivoValidado
    /\ campo = "logo"
    /\ cleaned_data.logo[1].size > 5242880
    /\ cleaned_data.logo[1].content_type = "text/html"
    /\ resultado = ValidationError(MsgLogoGrande)

\* C21: ConfiguracaoForm.clean_cnpj accepts a 14-digit value exactly when the CNPJ
\* validation of ClienteForm accepts it, and both reject a 14-digit value whose 13th
\* or 14th digit is not the one of the weighted mod-11 computation.
C21_CnpjDaOrganizacao ==
    (pc = "validado" /\ campo \in {"cnpj", "cpf_cnpj"} /\ Len(valor) = 14 /\ SoAscii(valor))
        => LET w1 == <<5, 4, 3, 2, 9, 8, 7, 6, 5, 4, 3, 2>>
               w2 == <<6, 5, 4, 3, 2, 9, 8, 7, 6, 5, 4, 3, 2>>
               c1 == ModOnze(Somatorio([i \in 0..11 |-> Dig(valor, i) * w1[i + 1]], 0, 11))
               c2 == ModOnze(Somatorio([i \in 0..12 |-> Dig(valor, i) * w2[i + 1]], 0, 12))
           IN  /\ formulario = "ConfiguracaoForm"
                      => (resultado.tipo = "Accepted"
                             <=> clean_cpf_cnpj(valor, 0, {}).tipo = "Accepted")
               /\ (Dig(valor, 12) # c1 \/ Dig(valor, 13) # c2)
                      => resultado.tipo = "ValidationError"

C23_FormatoDoCampo ==
    (pc = "validado" /\ campo = "cpf_cnpj" /\ formulario = "ClienteForm"
        /\ resultado.tipo = "Accepted")
        => /\ cpf_cnpj_validator(resultado.valor)
           /\ \A tipo \in {"PF", "PJ"} :
                  is_valid(valor, tipo, instance_pk, clientes).mensagem # MsgFormato

\* C24: the record of a submission that AgendaForm.clean or FinanceiroForm.clean
\* accepts has a client, also when only a case was supplied.
C24_RegistroComCliente ==
    (VinculoValidado /\ formulario \in {"AgendaForm", "FinanceiroForm"}
        /\ resultado.tipo = "Accepted")
        => construct_instance(resultado.valor).cliente # None

\* C25: in a submission that FinanceiroForm.clean accepts, the status is 'pago'
\* exactly when a payment date is present; 'pago' without a date is rejected, and
\* so is a date with any other status, 'recebido' included.
C25_PagoSseData ==
    (VinculoValidado /\ formulario = "FinanceiroForm") =>
        LET pago == cleaned_data.status = Some("pago")
            data == cleaned_data.data_pagamento # None
        IN  /\ resultado.tipo = "Accepted" => (pago <=> data)
            /\ (pago /\ ~data) => resultado = ValidationError(MsgPagoSemData)
            /\ (data /\ ~pago) => resultado = ValidationError(MsgDataSemPago)

\* a payment date submitted with the status 'recebido' was rejected
C25_Witness ==
    /\ VinculoValidado
    /\ formulario = "FinanceiroForm"
    /\ cleaned_data.status = Some("recebido")
    /\ cleaned_data.data_pagamento # None
    /\ cleaned_data.cliente # None
    /\ resultado = ValidationError(MsgDataSemPago)

\* a paid submission with its payment date and a client was accepted
C25_WitnessPago ==
    /\ VinculoValidado
    /\ formulario = "FinanceiroForm"
    /\ cleaned_data.status = Some("pago")
    /\ cleaned_data.data_pagamento # None
    /\ resultado.tipo = "Accepted"

\* C26: PrazoForm requires the completion date exactly when the submission marks
\* the deadline as fulfilled: marked without a date is rejected, a date without
\* the mark is rejected, and marked with a date not later than today is accepted.
C26_CumprimentoExigido ==
    (pc = "validado" /\ formulario = "PrazoForm" /\ campo = "data_cumprimento") =>
        LET marcado == valor.cumprido = Some(TRUE)
            data == valor.data_cumprimento
            hoje == date(agora[1])
        IN  /\ (marcado /\ data = None) => resultado.tipo = "ValidationError"
            /\ (~marcado /\ data # None) => resultado.tipo = "ValidationError"
            /\ (marcado /\ data # None /\ data[1] <= hoje) => resultado = Accepted(data)

\* the deadline pk was marked as fulfilled by a request served before
Marcado(pk) == \E i \in 1..Len(pedidos) : pedidos[i].pk = pk

\* C27: once prazo_marcar_cumprido has succeeded on a deadline, the stored row has
\* the status 'cumprido' and the date of that day as data_cumprimento, and every
\* later read gives is_vencido = False and dias_restantes = 0.
C27_CumpridoDesdeEntao ==
    campo \in {"prazo", "dias_restantes", "is_vencido"} =>
        /\ \A row \in prazos :
              Marcado(row.pk) =>
                  /\ row.status = "cumprido"
                  /\ \E i \in 1..Len(pedidos) :
                        pedidos[i].pk = row.pk /\ row.data_cumprimento = Some(pedidos[i].data)
        /\ (pc = "lido" /\ Marcado(instance_pk)) =>
              IF campo = "is_vencido" THEN resultado = Accepted(Some(FALSE))
              ELSE resultado = Accepted(Some(0))

\* C28: after set_valor(k, v), whatever the store held for k before, the store
\* holds exactly one entry for k and get_valor(k) returns v.
C28_IdaEVolta ==
    /\ (pc = "definido" /\ campo = "set_valor") =>
          Cardinality({c \in configuracoes : c.chave = valor.chave}) = 1
    /\ (pc = "lido" /\ campo = "get_valor" /\ anterior.tipo = "Accepted"
            /\ anterior.valor.chave = valor.chave)
          => resultado = Accepted(Some(anterior.valor.valor))

\* the size field of the instance, of either model
CampoDeTamanho ==
    IF formulario = "Backup" THEN instancia.tamanho_bytes ELSE instancia.tamanho_arquivo

\* C29: reading tamanho_formatado leaves the size field of the object as the row
\* held it, a second read returns the string of the first, and a save after the
\* reads stores the byte count the row held.
C29_LeituraPura ==
    (campo = "tamanho_formatado" /\ formulario \in {"Backup", "Documento"}) =>
        /\ (pc \in {"lido", "relido"} /\ gravacoes = 0) => CampoDeTamanho = valor
        /\ pc = "relido" => resultado = anterior
        /\ gravacoes > 0 =>
              (IF formulario = "Backup" THEN linha.tamanho_bytes ELSE linha.tamanho_arquivo)
                  = valor

\* C30: after any sequence of calls of marcar_como_lida the notification is read; on
\* a notification that was unread the first call sets data_leitura to the time of
\* that call and saves once, and no later call changes the instance or the row or
\* saves again; on a notification that was already read no call changes anything.
C30_MarcarUmaVez ==
    (campo = "marcar_como_lida" /\ Len(pedidos) >= 1) =>
        /\ instancia.lida /\ linha.lida
        /\ ~valor.lida =>
              /\ instancia.data_leitura = Some(pedidos[1].instante)
              /\ linha = instancia
              /\ gravacoes = 1
              /\ \A i \in 2..Len(pedidos) : ~pedidos[i].gravou
        /\ valor.lida =>
              /\ instancia = valor
              /\ linha = valor
              /\ gravacoes = 0

\* C30 witness: an unread notification marked twice, the second call at a later time.
C30_Witness ==
    /\ campo = "marcar_como_lida"
    /\ ~valor.lida
    /\ Len(pedidos) = 2
    /\ pedidos[2].instante > pedidos[1].instante
    /\ instancia.data_leitura = Some(pedidos[1].instante)

====
